---- MODULE Spec2Model ----
(***************************************************************************)
(* The entity store of aura-assistant (src/db.py): one SQLite table        *)
(* "entities" holding lists, tasks and user profiles, and the operations   *)
(* of db.py on it.                                                         *)
(*                                                                         *)
(* A title is a sequence of Unicode code points, so that case folding      *)
(* (Python's str.lower and SQLite's ASCII-only LOWER), the regular         *)
(* expressions, the tokenizers and SQLite's BINARY collation are computed  *)
(* as the code computes them.                                              *)
(***************************************************************************)
EXTENDS Integers, Sequences, FiniteSets, TLC

VARIABLES entities, last, pending

vars == <<entities, last, pending>>

(***************************************************************************)
(* Characters                                                              *)
(***************************************************************************)

\* The character class [0-9a-zA-Zа-яА-ЯёЁ] of the regular expressions.
IsWordChar(c) ==
    \/ c \in 48..57
    \/ c \in 65..90
    \/ c \in 97..122
    \/ c \in 1040..1103
    \/ c = 1025
    \/ c = 1105

\* Python's str.isspace for the ASCII range (str.strip, str.split).
IsSpace(c) == c \in {9, 10, 11, 12, 13, 28, 29, 30, 31, 32}

\* Python's str.lower on one character: Latin and Cyrillic letters fold.
PyLowerChar(c) ==
    IF c \in 65..90 THEN c + 32
    ELSE IF c \in 1040..1071 THEN c + 32
    ELSE IF c = 1025 THEN 1105
    ELSE c

\* SQLite's built-in LOWER() on one character: only ASCII letters fold.
SqlLowerChar(c) == IF c \in 65..90 THEN c + 32 ELSE c

PyLower(s) == [i \in 1..Len(s) |-> PyLowerChar(s[i])]

SqlLower(s) == [i \in 1..Len(s) |-> SqlLowerChar(s[i])]

(***************************************************************************)
(* Strings                                                                 *)
(***************************************************************************)

RECURSIVE LStrip(_)
LStrip(s) ==
    IF s = <<>> THEN <<>>
    ELSE IF IsSpace(Head(s)) THEN LStrip(Tail(s))
    ELSE s

RECURSIVE RStrip(_)
RStrip(s) ==
    IF s = <<>> THEN <<>>
    ELSE IF IsSpace(s[Len(s)]) THEN RStrip(SubSeq(s, 1, Len(s) - 1))
    ELSE s

\* str.strip()
Strip(s) == RStrip(LStrip(s))

\* "needle in hay" of Python strings
Contains(hay, needle) ==
    \E i \in 0..(Len(hay) - Len(needle)) :
        SubSeq(hay, i + 1, i + Len(needle)) = needle

EndsWith(s, suffix) ==
    /\ Len(suffix) <= Len(s)
    /\ SubSeq(s, Len(s) - Len(suffix) + 1, Len(s)) = suffix

\* The BINARY collation of SQLite on two titles (memcmp of the UTF-8 bytes,
\* which orders as the code points do): s sorts strictly before t.
RECURSIVE BinaryLess(_, _)
BinaryLess(s, t) ==
    IF t = <<>> THEN FALSE
    ELSE IF s = <<>> THEN TRUE
    ELSE IF Head(s) # Head(t) THEN Head(s) < Head(t)
    ELSE BinaryLess(Tail(s), Tail(t))

\* re.split(r"[^0-9a-zA-Zа-яА-ЯёЁ]+", s) without the empty parts: the
\* maximal runs of word characters, in order.  cur is the run being read.
RECURSIVE WordRuns(_, _)
WordRuns(s, cur) ==
    IF s = <<>> THEN (IF cur = <<>> THEN <<>> ELSE <<cur>>)
    ELSE IF IsWordChar(Head(s)) THEN WordRuns(Tail(s), Append(cur, Head(s)))
    ELSE (IF cur = <<>> THEN <<>> ELSE <<cur>>) \o WordRuns(Tail(s), <<>>)

\* re.sub(r"[^0-9a-zA-Zа-яА-ЯёЁ ]+", " ", s): every maximal run of characters
\* that are neither word characters nor the space becomes one space.
\* inRun: the previous character belonged to such a run.
RECURSIVE SubNonWord(_, _)
SubNonWord(s, inRun) ==
    IF s = <<>> THEN <<>>
    ELSE IF IsWordChar(Head(s)) \/ Head(s) = 32
         THEN <<Head(s)>> \o SubNonWord(Tail(s), FALSE)
    ELSE IF inRun THEN SubNonWord(Tail(s), TRUE)
    ELSE <<32>> \o SubNonWord(Tail(s), TRUE)

\* cleaned = re.sub(r"[^0-9a-zA-Zа-яА-ЯёЁ ]+", " ", pattern).strip()
CleanPattern(pattern) == Strip(SubNonWord(pattern, FALSE))

Min2(a, b) == IF a <= b THEN a ELSE b

\* Levenshtein.distance(a, b)
RECURSIVE distance(_, _)
distance(a, b) ==
    IF a = <<>> THEN Len(b)
    ELSE IF b = <<>> THEN Len(a)
    ELSE IF Head(a) = Head(b) THEN distance(Tail(a), Tail(b))
    ELSE 1 + Min2(distance(Tail(a), Tail(b)),
                  Min2(distance(Tail(a), b), distance(a, Tail(b))))

SeqToSet(s) == {s[i] : i \in 1..Len(s)}

(***************************************************************************)
(* Text Normalizer                                                         *)
(***************************************************************************)

\* The words, in order: и да нет куплены куплено куплена куплен готово готовы готов выполнено выполнены выполнен сделано сделаны сделан
_TOKEN_STOPWORDS ==
    {
      <<1080>>,
      <<1076, 1072>>,
      <<1085, 1077, 1090>>,
      <<1082, 1091, 1087, 1083, 1077, 1085, 1099>>,
      <<1082, 1091, 1087, 1083, 1077, 1085, 1086>>,
      <<1082, 1091, 1087, 1083, 1077, 1085, 1072>>,
      <<1082, 1091, 1087, 1083, 1077, 1085>>,
      <<1075, 1086, 1090, 1086, 1074, 1086>>,
      <<1075, 1086, 1090, 1086, 1074, 1099>>,
      <<1075, 1086, 1090, 1086, 1074>>,
      <<1074, 1099, 1087, 1086, 1083, 1085, 1077, 1085, 1086>>,
      <<1074, 1099, 1087, 1086, 1083, 1085, 1077, 1085, 1099>>,
      <<1074, 1099, 1087, 1086, 1083, 1085, 1077, 1085>>,
      <<1089, 1076, 1077, 1083, 1072, 1085, 1086>>,
      <<1089, 1076, 1077, 1083, 1072, 1085, 1099>>,
      <<1089, 1076, 1077, 1083, 1072, 1085>>
    }

\* The added words, in order: во в на по за из у к со от до для это эта этот там
_SEMANTIC_STOPWORDS ==
    _TOKEN_STOPWORDS \cup {
      <<1074, 1086>>,
      <<1074>>,
      <<1085, 1072>>,
      <<1087, 1086>>,
      <<1079, 1072>>,
      <<1080, 1079>>,
      <<1091>>,
      <<1082>>,
      <<1089, 1086>>,
      <<1086, 1090>>,
      <<1076, 1086>>,
      <<1076, 1083, 1103>>,
      <<1101, 1090, 1086>>,
      <<1101, 1090, 1072>>,
      <<1101, 1090, 1086, 1090>>,
      <<1090, 1072, 1084>>
    }

\* The pairs, in order: оплатить -> платить, заплатить -> платить, оплата -> платить, платеж -> платить, квитанция -> платить, покупку -> покуп, покупка -> покуп, покупки -> покуп, купить -> покуп, электричество -> свет, электричества -> свет, электроэнергия -> свет, электроэнергию -> свет, свет -> свет
_SEMANTIC_REPLACEMENTS ==
    {
      <<<<1086, 1087, 1083, 1072, 1090, 1080, 1090, 1100>>, <<1087, 1083, 1072, 1090, 1080, 1090, 1100>>>>,
      <<<<1079, 1072, 1087, 1083, 1072, 1090, 1080, 1090, 1100>>, <<1087, 1083, 1072, 1090, 1080, 1090, 1100>>>>,
      <<<<1086, 1087, 1083, 1072, 1090, 1072>>, <<1087, 1083, 1072, 1090, 1080, 1090, 1100>>>>,
      <<<<1087, 1083, 1072, 1090, 1077, 1078>>, <<1087, 1083, 1072, 1090, 1080, 1090, 1100>>>>,
      <<<<1082, 1074, 1080, 1090, 1072, 1085, 1094, 1080, 1103>>, <<1087, 1083, 1072, 1090, 1080, 1090, 1100>>>>,
      <<<<1087, 1086, 1082, 1091, 1087, 1082, 1091>>, <<1087, 1086, 1082, 1091, 1087>>>>,
      <<<<1087, 1086, 1082, 1091, 1087, 1082, 1072>>, <<1087, 1086, 1082, 1091, 1087>>>>,
      <<<<1087, 1086, 1082, 1091, 1087, 1082, 1080>>, <<1087, 1086, 1082, 1091, 1087>>>>,
      <<<<1082, 1091, 1087, 1080, 1090, 1100>>, <<1087, 1086, 1082, 1091, 1087>>>>,
      <<<<1101, 1083, 1077, 1082, 1090, 1088, 1080, 1095, 1077, 1089, 1090, 1074, 1086>>, <<1089, 1074, 1077, 1090>>>>,
      <<<<1101, 1083, 1077, 1082, 1090, 1088, 1080, 1095, 1077, 1089, 1090, 1074, 1072>>, <<1089, 1074, 1077, 1090>>>>,
      <<<<1101, 1083, 1077, 1082, 1090, 1088, 1086, 1101, 1085, 1077, 1088, 1075, 1080, 1103>>, <<1089, 1074, 1077, 1090>>>>,
      <<<<1101, 1083, 1077, 1082, 1090, 1088, 1086, 1101, 1085, 1077, 1088, 1075, 1080, 1102>>, <<1089, 1074, 1077, 1090>>>>,
      <<<<1089, 1074, 1077, 1090>>, <<1089, 1074, 1077, 1090>>>>
    }

\* The suffixes, in order: иями ями ами иях ях ев ов его ого ему ому ыми ими
_SEMANTIC_SUFFIXES ==
    <<
      <<1080, 1103, 1084, 1080>>,
      <<1103, 1084, 1080>>,
      <<1072, 1084, 1080>>,
      <<1080, 1103, 1093>>,
      <<1103, 1093>>,
      <<1077, 1074>>,
      <<1086, 1074>>,
      <<1077, 1075, 1086>>,
      <<1086, 1075, 1086>>,
      <<1077, 1084, 1091>>,
      <<1086, 1084, 1091>>,
      <<1099, 1084, 1080>>,
      <<1080, 1084, 1080>>
    >>

\* и ы а я е ю ь й
FinalVowels == {1080, 1099, 1072, 1103, 1077, 1102, 1100, 1081}

\* _tokenize(text)
_tokenize(text) ==
    SelectSeq(WordRuns(PyLower(text), <<>>), LAMBDA p : p \notin _TOKEN_STOPWORDS)

\* _SEMANTIC_REPLACEMENTS.get(token, token)
Replacement(token) ==
    IF \E p \in _SEMANTIC_REPLACEMENTS : p[1] = token
    THEN (CHOOSE p \in _SEMANTIC_REPLACEMENTS : p[1] = token)[2]
    ELSE token

\* The first suffix of _SEMANTIC_SUFFIXES, from index i on, that base ends
\* with and that leaves at least 4 characters; 0 when there is none.
RECURSIVE FirstSuffix(_, _)
FirstSuffix(base, i) ==
    IF i > Len(_SEMANTIC_SUFFIXES) THEN 0
    ELSE IF /\ EndsWith(base, _SEMANTIC_SUFFIXES[i])
            /\ Len(base) - Len(_SEMANTIC_SUFFIXES[i]) >= 4
         THEN i
    ELSE FirstSuffix(base, i + 1)

\* base[: -len(suffix)] for the suffix of index k; base itself when k = 0
CutSuffix(base, k) ==
    IF k = 0 THEN base
    ELSE SubSeq(base, 1, Len(base) - Len(_SEMANTIC_SUFFIXES[k]))

\* The suffix loop, entered when len(base) > 4
StripSuffix(base) ==
    CutSuffix(base, IF Len(base) > 4 THEN FirstSuffix(base, 1) ELSE 0)

\* if len(base) > 4 and base[-1] in {...}: base = base[:-1]
DropFinalVowel(base) ==
    IF Len(base) > 4 /\ base[Len(base)] \in FinalVowels
    THEN SubSeq(base, 1, Len(base) - 1)
    ELSE base

_normalize_semantic_token(token) == DropFinalVowel(StripSuffix(Replacement(token)))

\* normalized.replace("ё", "е")
ReplaceYo(s) == [i \in 1..Len(s) |-> IF s[i] = 1105 THEN 1077 ELSE s[i]]

\* What one raw token adds to tokens: nothing for a stopword, else its
\* reduced form unless that is empty or a stopword.
KeptToken(token, reduced) ==
    IF token \in _SEMANTIC_STOPWORDS THEN <<>>
    ELSE IF reduced # <<>> /\ reduced \notin _SEMANTIC_STOPWORDS THEN <<reduced>>
    ELSE <<>>

RECURSIVE SemanticReduce(_)
SemanticReduce(raw) ==
    IF raw = <<>> THEN <<>>
    ELSE KeptToken(Head(raw), _normalize_semantic_token(Head(raw)))
             \o SemanticReduce(Tail(raw))

_semantic_tokenize(text) ==
    SemanticReduce(WordRuns(ReplaceYo(PyLower(text)), <<>>))

(***************************************************************************)
(* Similarity Scorer.  A score is the fraction <<numerator, denominator>>. *)
(***************************************************************************)

\* A variant that scores two empty token sets as equal; property C39 tells
\* the two apart.
JaccardEmptyIsOne(tokens_a, tokens_b) ==
    IF tokens_a \cup tokens_b = {} THEN <<1, 1>>
    ELSE <<Cardinality(tokens_a \cap tokens_b), Cardinality(tokens_a \cup tokens_b)>>

\* len(tokens_a & tokens_b) / len(union), 0.0 for an empty union
Jaccard(tokens_a, tokens_b) ==
    IF tokens_a \cup tokens_b = {} THEN <<0, 1>>
    ELSE <<Cardinality(tokens_a \cap tokens_b), Cardinality(tokens_a \cup tokens_b)>>

semantic_similarity(text_a, text_b) ==
    Jaccard(SeqToSet(_semantic_tokenize(text_a)), SeqToSet(_semantic_tokenize(text_b)))

\* score > threshold, for the threshold 0.75 = 3/4 of _find_semantic_duplicate
AboveThreshold(score) == score[1] * 4 > score[2] * 3

\* A variant with the threshold 0.8 = 4/5; property C23 tells the two apart.
AutoUseAtFourFifths(score) == score[1] * 5 >= score[2] * 4

\* score >= 0.85 = 17/20
AutoUse(score) == score[1] * 20 >= score[2] * 17

\* a > b on two scores
ScoreGreater(a, b) == a[1] * b[2] > b[1] * a[2]

ScoreEqual(a, b) == a[1] * b[2] = b[1] * a[2]

(***************************************************************************)
(* The table "entities".  entities[i] is the row with id i; rows are never *)
(* removed, so the ids are 1..Len(entities).  The meta column is the JSON  *)
(* object whose keys are modelled by the fields deleted ("deleted": true), *)
(* done ("status": "done"), archived ("archived": true) and archived_from  *)
(* (absent when <<>>: the code never stores an empty archived_from).       *)
(* parent = 0 is parent_id NULL.  created_at is the rank of the row's      *)
(* CURRENT_TIMESTAMP second among the seconds in which rows were inserted. *)
(***************************************************************************)

Ids(E) == 1..Len(E)

Row(user_id, type, title, parent, created_at) ==
    [user_id |-> user_id, type |-> type, title |-> title, parent |-> parent,
     created_at |-> created_at, deleted |-> FALSE, done |-> FALSE,
     archived |-> FALSE, archived_from |-> <<>>]

\* CURRENT_TIMESTAMP of an INSERT: the second of the latest insert so far
\* when the clock has not advanced since (tick = FALSE), a later one otherwise.
MaxCreated(E) ==
    IF E = <<>> THEN 0
    ELSE CHOOSE m \in {E[i].created_at : i \in Ids(E)} :
             \A i \in Ids(E) : E[i].created_at <= m

Now(E, tick) == IF E = <<>> \/ tick THEN MaxCreated(E) + 1 ELSE MaxCreated(E)

\* A UNIQUE index in which NULL parent_ids would count as equal; property C16
\* tells it from the index SQLite keeps.
UniqueConflictNullsEqual(E, self, user_id, type, title, parent) ==
    \E i \in Ids(E) \ {self} :
        /\ E[i].user_id = user_id
        /\ E[i].type = type
        /\ E[i].title = title
        /\ E[i].parent = parent

\* UNIQUE(user_id, type, title, parent_id): would row `self` (0 for a row
\* being inserted) with these values violate it?  A NULL parent_id never
\* conflicts (SQLite treats NULLs as distinct in a UNIQUE index).
UniqueConflict(E, self, user_id, type, title, parent) ==
    /\ parent # 0
    /\ \E i \in Ids(E) \ {self} :
           /\ E[i].user_id = user_id
           /\ E[i].type = type
           /\ E[i].title = title
           /\ E[i].parent = parent

\* The order in which SQLite visits the rows of one user and type when it
\* scans sqlite_autoindex_entities_1 (user_id, type, title, parent_id), which
\* its planner uses for every query of db.py: by title (BINARY), then
\* parent_id (NULL first), then rowid.
IndexBefore(E, i, j) ==
    \/ BinaryLess(E[i].title, E[j].title)
    \/ /\ E[i].title = E[j].title
       /\ \/ E[i].parent < E[j].parent
          \/ E[i].parent = E[j].parent /\ i < j

\* The rows S in index order.
RECURSIVE InIndexOrder(_, _)
InIndexOrder(E, S) ==
    IF S = {} THEN <<>>
    ELSE LET m == CHOOSE i \in S : \A j \in S \ {i} : IndexBefore(E, i, j)
         IN  <<m>> \o InIndexOrder(E, S \ {m})

\* The rows S under ORDER BY created_at ASC: rows of one second stay in the
\* order of the index scan that feeds the sorter.
CreatedBefore(E, i, j) ==
    \/ E[i].created_at < E[j].created_at
    \/ E[i].created_at = E[j].created_at /\ IndexBefore(E, i, j)

RECURSIVE InCreatedOrder(_, _)
InCreatedOrder(E, S) ==
    IF S = {} THEN <<>>
    ELSE LET m == CHOOSE i \in S : \A j \in S \ {i} : CreatedBefore(E, i, j)
         IN  <<m>> \o InCreatedOrder(E, S \ {m})

\* fetchone() of a LIMIT 1 query matching the rows S: the first in index
\* order, 0 for None.
First(E, S) ==
    IF S = {} THEN 0
    ELSE CHOOSE i \in S : \A j \in S \ {i} : IndexBefore(E, i, j)

Titles(E, ids) == [k \in 1..Len(ids) |-> E[ids[k]].title]

(***************************************************************************)
(* Row lookups                                                             *)
(***************************************************************************)

ListRows(E, user_id) == {i \in Ids(E) : E[i].user_id = user_id /\ E[i].type = "list"}

TaskRows(E, user_id, list_id) ==
    {i \in Ids(E) : E[i].user_id = user_id /\ E[i].type = "task" /\ E[i].parent = list_id}

\* A variant of _get_list_id whose query has no condition on user_id;
\* property C19 tells the two apart.
GetListIdOfAnyone(E, user_id, list_name) ==
    First(E, {i \in Ids(E) :
                 /\ E[i].type = "list"
                 /\ SqlLower(E[i].title) = SqlLower(list_name)
                 /\ ~E[i].deleted})

_get_list_id(E, user_id, list_name) ==
    First(E, {i \in ListRows(E, user_id) :
                 /\ SqlLower(E[i].title) = SqlLower(list_name)
                 /\ ~E[i].deleted})

find_list(E, user_id, list_name) ==
    First(E, {i \in ListRows(E, user_id) :
                 SqlLower(E[i].title) = SqlLower(list_name)})

_get_task_row(E, user_id, list_id, title) ==
    First(E, {i \in TaskRows(E, user_id, list_id) :
                 /\ SqlLower(E[i].title) = SqlLower(title)
                 /\ ~E[i].deleted})

\* A variant of _list_active_tasks whose query does not exclude the deleted
\* tasks; property C30 tells the two apart.
ListTasksWithDeleted(E, user_id, list_id) ==
    InCreatedOrder(E, {i \in TaskRows(E, user_id, list_id) : ~E[i].done})

_list_active_tasks(E, user_id, list_id) ==
    InCreatedOrder(E, {i \in TaskRows(E, user_id, list_id) :
                          ~E[i].deleted /\ ~E[i].done})

_list_restorable_tasks(E, user_id, list_id) ==
    InIndexOrder(E, {i \in TaskRows(E, user_id, list_id) :
                        E[i].deleted \/ E[i].done \/ E[i].archived})

(***************************************************************************)
(* Duplicate detection                                                     *)
(***************************************************************************)

\* if score > threshold and (best_match is None or score > best_match[2])
Better(score, best) == AboveThreshold(score) /\ (best[1] = 0 \/ ScoreGreater(score, best[2]))

\* The loop of _find_semantic_duplicate over rows (in fetch order) from index
\* k on; best is best_match as <<id, score>>, <<0, <<0, 0>>>> for None.
RECURSIVE BestMatch(_, _, _, _, _)
RECURSIVE BestMatchStep(_, _, _, _, _, _)
BestMatchStep(E, cleaned, rows, k, best, score) ==
    BestMatch(E, cleaned, rows, k + 1,
              IF Better(score, best) THEN <<rows[k], score>> ELSE best)

BestMatch(E, cleaned, rows, k, best) ==
    IF k > Len(rows) THEN best
    ELSE BestMatchStep(E, cleaned, rows, k, best,
                       semantic_similarity(cleaned, E[rows[k]].title))

\* A variant of the query of _find_semantic_duplicate without its condition
\* on the deleted flag; property C15 tells the two apart.
DuplicateCandidatesWithDeleted(E, user_id, entity_type, parent_id) ==
    {i \in Ids(E) : /\ E[i].user_id = user_id
                    /\ E[i].type = entity_type
                    /\ (parent_id # 0 => E[i].parent = parent_id)}

\* The rows the query of _find_semantic_duplicate selects.
\* parent_id = 0 is the call without parent_id.
DuplicateCandidates(E, user_id, entity_type, parent_id) ==
    {i \in Ids(E) : /\ E[i].user_id = user_id
                    /\ E[i].type = entity_type
                    /\ ~E[i].deleted
                    /\ (parent_id # 0 => E[i].parent = parent_id)}

\* _find_semantic_duplicate: best_match as <<id, score>>, id 0 for None.
_find_semantic_duplicate(E, user_id, title, entity_type, parent_id) ==
    IF Strip(title) = <<>> THEN <<0, <<0, 0>>>>
    ELSE BestMatch(E, Strip(title),
                   InIndexOrder(E, DuplicateCandidates(E, user_id, entity_type, parent_id)),
                   1, <<0, <<0, 0>>>>)

(***************************************************************************)
(* Fuzzy Resolver.  candidates is a sequence of row ids.                   *)
(***************************************************************************)

\* overlap = len(pt_set & tokens) if pt_set else 0
Overlap(pt_set, tokens) == IF pt_set # {} THEN Cardinality(pt_set \cap tokens) ELSE 0

\* substring_match after its three assignments
SubstringMatch(pt_set, cleaned_lower, title_lower) ==
    IF pt_set = {} /\ cleaned_lower # <<>>
    THEN Contains(title_lower, cleaned_lower)
    ELSE \/ cleaned_lower # <<>> /\ Contains(title_lower, cleaned_lower)
         \/ /\ pt_set # {}
            /\ \E token \in pt_set : Len(token) > 2 /\ Contains(title_lower, token)

\* Is the candidate with this lowered title and these tokens scored (not
\* skipped by `continue`)?
Kept(pt_set, cleaned_lower, title_lower, tokens) ==
    ~(/\ pt_set # {}
      /\ Overlap(pt_set, tokens) = 0
      /\ ~SubstringMatch(pt_set, cleaned_lower, title_lower))

Scored(E, pt_set, cleaned_lower, c) ==
    Kept(pt_set, cleaned_lower, PyLower(E[c].title), SeqToSet(_tokenize(E[c].title)))

\* The sort key (-overlap, edit_distance, len(title_lower), candidate) of a
\* scored candidate; the candidate tuple starts with the row id, which
\* decides between equal keys.
KeyOf(pt_set, cleaned_lower, title_lower, tokens, c) ==
    <<0 - Overlap(pt_set, tokens),
      IF cleaned_lower # <<>> THEN distance(title_lower, cleaned_lower) ELSE 0,
      Len(title_lower),
      c>>

ScoreKey(E, pt_set, cleaned_lower, c) ==
    KeyOf(pt_set, cleaned_lower, PyLower(E[c].title),
          SeqToSet(_tokenize(E[c].title)), c)

\* tuple comparison a < b of Python on two sort keys
KeyLess(a, b) ==
    \/ a[1] < b[1]
    \/ a[1] = b[1] /\ a[2] < b[2]
    \/ a[1] = b[1] /\ a[2] = b[2] /\ a[3] < b[3]
    \/ a[1] = b[1] /\ a[2] = b[2] /\ a[3] = b[3] /\ a[4] < b[4]

\* The first candidate from index k on that contains the pattern or is
\* contained in it (the fallback loop of _score_candidates); 0 for None.
RECURSIVE FirstSubstring(_, _, _, _)
FirstSubstring(E, cleaned_lower, candidates, k) ==
    IF k > Len(candidates) THEN 0
    ELSE IF \/ Contains(PyLower(E[candidates[k]].title), cleaned_lower)
            \/ Contains(cleaned_lower, PyLower(E[candidates[k]].title))
         THEN candidates[k]
    ELSE FirstSubstring(E, cleaned_lower, candidates, k + 1)

\* The end of _score_candidates; keys maps each scored candidate to its key.
BestScored(E, cleaned_lower, candidates, keys) ==
    IF DOMAIN keys = {} /\ cleaned_lower # <<>>
    THEN FirstSubstring(E, cleaned_lower, candidates, 1)
    ELSE IF DOMAIN keys = {} THEN 0
    ELSE CHOOSE c \in DOMAIN keys :
             \A d \in (DOMAIN keys) \ {c} : KeyLess(keys[c], keys[d])

ScoreAll(E, pt_set, cleaned_lower, candidates) ==
    BestScored(E, cleaned_lower, candidates,
               [c \in {x \in SeqToSet(candidates) : Scored(E, pt_set, cleaned_lower, x)}
                   |-> ScoreKey(E, pt_set, cleaned_lower, c)])

\* _score_candidates: the id of the chosen candidate, 0 for None.
_score_candidates(E, pattern_tokens, cleaned_pattern, candidates) ==
    ScoreAll(E, SeqToSet(pattern_tokens), PyLower(cleaned_pattern), candidates)

\* The first candidate from index k on whose stripped, lowered title equals
\* lowered (the exact-match loop of _select_candidate); 0 when none.
RECURSIVE FirstExact(_, _, _, _)
FirstExact(E, lowered, candidates, k) ==
    IF k > Len(candidates) THEN 0
    ELSE IF /\ E[candidates[k]].title # <<>>
            /\ PyLower(Strip(E[candidates[k]].title)) = lowered
         THEN candidates[k]
    ELSE FirstExact(E, lowered, candidates, k + 1)

SelectExact(E, pattern, cleaned, candidates, exact) ==
    IF exact # 0 THEN exact
    ELSE _score_candidates(E, _tokenize(pattern), cleaned, candidates)

SelectCleaned(E, pattern, cleaned, candidates) ==
    IF pattern = <<>> \/ cleaned = <<>> THEN 0
    ELSE SelectExact(E, pattern, cleaned, candidates,
                     FirstExact(E, PyLower(cleaned), candidates, 1))

\* _select_candidate: the id of the chosen candidate, 0 for None.
_select_candidate(E, pattern, candidates) ==
    SelectCleaned(E, pattern, CleanPattern(pattern), candidates)

(***************************************************************************)
(* Operations.  Each is the function of db.py of the same name, as an      *)
(* operator from the table E (and the arguments) to the outcome            *)
(*   [ents: the table afterwards, ret: the returned count (0 for the       *)
(*    creation functions), target: the id of the row it wrote (0: none),   *)
(*    title: the returned title (<<>>: None), suggestion: a suggestion     *)
(*    string was returned, res: the returned CreationResult].              *)
(* None is 0 for an id, <<>> for a title and <<0, 0>> for a similarity.    *)
(***************************************************************************)

_creation_result ==
    [id |-> 0, title |-> <<>>, created |-> FALSE, restored |-> FALSE,
     duplicate_detected |-> FALSE, duplicate_id |-> 0, duplicate_title |-> <<>>,
     similarity |-> <<0, 0>>, auto_use |-> FALSE, missing_parent |-> FALSE]

Outcome(E, ret, target, title) ==
    [ents |-> E, ret |-> ret, target |-> target, title |-> title,
     suggestion |-> FALSE, res |-> _creation_result]

Creation(E, target, res) ==
    [ents |-> E, ret |-> 0, target |-> target, title |-> <<>>,
     suggestion |-> FALSE, res |-> res]

DuplicateResult(id, title, score, auto) ==
    [_creation_result EXCEPT !.id = id, !.title = title,
                             !.duplicate_detected = TRUE, !.duplicate_id = id,
                             !.duplicate_title = title, !.similarity = score,
                             !.auto_use = auto]

\* The INSERT of create_list and the result it returns.
CreateListInsert(E, tick, user_id, cleaned_name) ==
    Creation(Append(E, Row(user_id, "list", cleaned_name, 0, Now(E, tick))),
             Len(E) + 1,
             [_creation_result EXCEPT !.id = Len(E) + 1, !.title = cleaned_name,
                                      !.created = TRUE])

\* except sqlite3.IntegrityError: existing_id = _get_list_id(...)
CreateListConflict(E, cleaned_name, existing_id) ==
    IF existing_id # 0
    THEN Creation(E, 0, DuplicateResult(existing_id, cleaned_name, <<1, 1>>, TRUE))
    ELSE Creation(E, 0, [_creation_result EXCEPT !.title = cleaned_name])

\* create_list from the duplicate check on; duplicate is <<id, score>>.
CreateListChecked(E, tick, user_id, list_name, cleaned_name, duplicate) ==
    IF cleaned_name = <<>>
    THEN Creation(E, 0, [_creation_result EXCEPT !.title = list_name])
    ELSE IF duplicate[1] # 0
    THEN Creation(E, 0, DuplicateResult(duplicate[1], E[duplicate[1]].title,
                                        duplicate[2], AutoUse(duplicate[2])))
    ELSE IF UniqueConflict(E, 0, user_id, "list", cleaned_name, 0)
    THEN CreateListConflict(E, cleaned_name, _get_list_id(E, user_id, cleaned_name))
    ELSE CreateListInsert(E, tick, user_id, cleaned_name)

CreateListNamed(E, tick, user_id, list_name, force, cleaned_name) ==
    CreateListChecked(E, tick, user_id, list_name, cleaned_name,
                      IF force THEN <<0, <<0, 0>>>>
                      ELSE _find_semantic_duplicate(E, user_id, cleaned_name, "list", 0))

create_list(E, tick, user_id, list_name, force) ==
    CreateListNamed(E, tick, user_id, list_name, force, Strip(list_name))

\* rename_list once the row of old_name is looked up.
RenameListRow(E, user_id, new_name, list_id) ==
    IF list_id = 0 THEN Outcome(E, 0, 0, <<>>)
    ELSE IF _get_list_id(E, user_id, new_name) # 0 THEN Outcome(E, 0, 0, <<>>)
    ELSE IF UniqueConflict(E, list_id, E[list_id].user_id, E[list_id].type,
                           new_name, E[list_id].parent)
    THEN Outcome(E, 0, 0, <<>>)
    ELSE Outcome([E EXCEPT ![list_id].title = new_name], 1, list_id, <<>>)

rename_list(E, user_id, old_name, new_name) ==
    RenameListRow(E, user_id, new_name, _get_list_id(E, user_id, old_name))

\* ORDER BY title ASC
get_all_lists(E, user_id) ==
    Titles(E, InIndexOrder(E, {i \in ListRows(E, user_id) : ~E[i].deleted}))

\* The INSERT of add_task and the result it returns.
AddTaskInsert(E, tick, user_id, title, list_id) ==
    Creation(Append(E, Row(user_id, "task", title, list_id, Now(E, tick))),
             Len(E) + 1,
             [_creation_result EXCEPT !.id = Len(E) + 1, !.title = title,
                                      !.created = TRUE])

\* The branch `if existing_task:` of add_task.
AddTaskExisting(E, existing_task) ==
    IF E[existing_task].deleted \/ E[existing_task].done
    THEN Creation([E EXCEPT ![existing_task].deleted = FALSE,
                            ![existing_task].done = FALSE],
                  existing_task,
                  [_creation_result EXCEPT !.id = existing_task,
                                           !.title = E[existing_task].title,
                                           !.restored = TRUE])
    ELSE Creation(E, 0, DuplicateResult(existing_task, E[existing_task].title,
                                        <<1, 1>>, TRUE))

\* add_task after the lookup of the same-titled row; duplicate is <<id, score>>.
AddTaskChecked(E, tick, user_id, title, list_id, existing_task, duplicate) ==
    IF existing_task # 0 THEN AddTaskExisting(E, existing_task)
    ELSE IF duplicate[1] # 0
    THEN Creation(E, 0, DuplicateResult(duplicate[1], E[duplicate[1]].title,
                                        duplicate[2], AutoUse(duplicate[2])))
    ELSE IF UniqueConflict(E, 0, user_id, "task", title, list_id)
    THEN \* except sqlite3.IntegrityError
         Creation(E, 0, [_creation_result EXCEPT !.title = title])
    ELSE AddTaskInsert(E, tick, user_id, title, list_id)

AddTaskInList(E, tick, user_id, title, force, list_id) ==
    IF list_id = 0
    THEN Creation(E, 0, [_creation_result EXCEPT !.title = title,
                                                 !.missing_parent = TRUE])
    ELSE AddTaskChecked(E, tick, user_id, title, list_id,
                        _get_task_row(E, user_id, list_id, title),
                        IF force THEN <<0, <<0, 0>>>>
                        ELSE _find_semantic_duplicate(E, user_id, title, "task", list_id))

add_task(E, tick, user_id, list_name, title, force) ==
    AddTaskInList(E, tick, user_id, title, force, find_list(E, user_id, list_name))

\* update_task once the row of old_title is looked up.
UpdateTaskRow(E, user_id, new_title, list_id, task_row) ==
    IF task_row = 0 THEN Outcome(E, 0, 0, <<>>)
    ELSE IF _get_task_row(E, user_id, list_id, new_title) # 0
    THEN Outcome(E, 0, 0, <<>>)
    ELSE IF UniqueConflict(E, task_row, E[task_row].user_id, E[task_row].type,
                           new_title, E[task_row].parent)
    THEN Outcome(E, 0, 0, <<>>)
    ELSE Outcome([E EXCEPT ![task_row].title = new_title], 1, task_row, <<>>)

UpdateTaskInList(E, user_id, old_title, new_title, list_id) ==
    IF list_id = 0 THEN Outcome(E, 0, 0, <<>>)
    ELSE UpdateTaskRow(E, user_id, new_title, list_id,
                       _get_task_row(E, user_id, list_id, old_title))

update_task(E, user_id, list_name, old_title, new_title) ==
    UpdateTaskInList(E, user_id, old_title, new_title,
                     _get_list_id(E, user_id, list_name))

\* update_task_by_index once the active tasks are listed.
UpdateTaskAt(E, user_id, index, new_title, list_id, tasks) ==
    IF tasks = <<>> \/ index < 1 \/ index > Len(tasks)
    THEN Outcome(E, 0, 0, <<>>)
    ELSE IF _get_task_row(E, user_id, list_id, new_title) # 0
    THEN Outcome(E, 0, 0, <<>>)
    ELSE IF UniqueConflict(E, tasks[index], E[tasks[index]].user_id,
                           E[tasks[index]].type, new_title, E[tasks[index]].parent)
    THEN Outcome(E, 0, 0, <<>>)
    ELSE Outcome([E EXCEPT ![tasks[index]].title = new_title], 1, tasks[index],
                 E[tasks[index]].title)

UpdateTaskByIndexInList(E, user_id, index, new_title, list_id) ==
    IF list_id = 0 THEN Outcome(E, 0, 0, <<>>)
    ELSE UpdateTaskAt(E, user_id, index, new_title, list_id,
                      _list_active_tasks(E, user_id, list_id))

update_task_by_index(E, user_id, list_name, index, new_title) ==
    UpdateTaskByIndexInList(E, user_id, index, new_title,
                            _get_list_id(E, user_id, list_name))

GetListTasksInList(E, user_id, list_id) ==
    IF list_id = 0 THEN <<>>
    ELSE Titles(E, _list_active_tasks(E, user_id, list_id))

\* The titles in order; the ordinal of a title is its position.
get_list_tasks(E, user_id, list_name) ==
    GetListTasksInList(E, user_id, _get_list_id(E, user_id, list_name))

\* meta["status"] = "done"; meta.pop("deleted", None)
SetDone(E, id) == [E EXCEPT ![id].done = TRUE, ![id].deleted = FALSE]

\* The end of mark_task_done: chosen = _select_candidate(...)
MarkDoneChosen(E, chosen) ==
    IF chosen = 0 THEN Outcome(E, 0, 0, <<>>)
    ELSE Outcome(SetDone(E, chosen), 1, chosen, <<>>)

MarkDoneAmong(E, task_title, candidates) ==
    IF candidates = <<>> THEN Outcome(E, 0, 0, <<>>)
    ELSE MarkDoneChosen(E, _select_candidate(E, task_title, candidates))

MarkDoneInList(E, user_id, task_title, list_id) ==
    IF list_id = 0 THEN Outcome(E, 0, 0, <<>>)
    ELSE MarkDoneAmong(E, task_title, _list_active_tasks(E, user_id, list_id))

mark_task_done(E, user_id, list_name, task_title) ==
    MarkDoneInList(E, user_id, task_title, _get_list_id(E, user_id, list_name))

\* The end of mark_task_done_fuzzy: chosen = _score_candidates(...)
MarkDoneFuzzyChosen(E, chosen) ==
    IF chosen = 0 THEN Outcome(E, 0, 0, <<>>)
    ELSE Outcome(SetDone(E, chosen), 1, chosen, E[chosen].title)

MarkDoneFuzzyAmong(E, pattern, cleaned, candidates) ==
    IF candidates = <<>> THEN Outcome(E, 0, 0, <<>>)
    ELSE MarkDoneFuzzyChosen(E, _score_candidates(E, _tokenize(pattern), cleaned,
                                                  candidates))

MarkDoneFuzzyInList(E, user_id, pattern, cleaned, list_id) ==
    IF list_id = 0 THEN Outcome(E, 0, 0, <<>>)
    ELSE MarkDoneFuzzyAmong(E, pattern, cleaned,
                            _list_active_tasks(E, user_id, list_id))

MarkDoneFuzzyCleaned(E, user_id, list_name, pattern, cleaned) ==
    IF pattern = <<>> \/ cleaned = <<>> THEN Outcome(E, 0, 0, <<>>)
    ELSE MarkDoneFuzzyInList(E, user_id, pattern, cleaned,
                             _get_list_id(E, user_id, list_name))

mark_task_done_fuzzy(E, user_id, list_name, pattern) ==
    MarkDoneFuzzyCleaned(E, user_id, list_name, pattern, CleanPattern(pattern))

\* A variant of the loop of delete_list that leaves out
\* task_meta.pop("deleted", None); the cascade property C8 tells the two apart.
ArchiveChildrenKeepingDeleted(E, user_id, list_id, list_name) ==
    [i \in Ids(E) |->
        IF i \in TaskRows(E, user_id, list_id)
        THEN [E[i] EXCEPT !.archived = TRUE,
                          !.archived_from = IF list_name # <<>> THEN list_name ELSE @]
        ELSE E[i]]

\* The loop of delete_list over the child rows.
ArchiveChildren(E, user_id, list_id, list_name) ==
    [i \in Ids(E) |->
        IF i \in TaskRows(E, user_id, list_id)
        THEN [E[i] EXCEPT !.deleted = FALSE, !.archived = TRUE,
                          !.archived_from = IF list_name # <<>> THEN list_name ELSE @]
        ELSE E[i]]

\* delete_list once the row is fetched.
DeleteListRow(E, user_id, list_name, list_id) ==
    IF list_id = 0 THEN Outcome(E, 0, 0, <<>>)
    ELSE Outcome(ArchiveChildren([E EXCEPT ![list_id].deleted = TRUE],
                                 user_id, list_id, list_name),
                 1, list_id, <<>>)

delete_list(E, user_id, list_name) ==
    DeleteListRow(E, user_id, list_name,
                  First(E, {i \in ListRows(E, user_id) : E[i].title = list_name}))

\* A variant of delete_task without the check of status = 'done'; property
\* C36 tells the two apart.
DeleteTaskRowAlsoDone(E, task_row) ==
    IF task_row = 0 THEN Outcome(E, 0, 0, <<>>)
    ELSE Outcome([E EXCEPT ![task_row].deleted = TRUE], 1, task_row, <<>>)

\* delete_task once the row is looked up.
DeleteTaskRow(E, task_row) ==
    IF task_row = 0 THEN Outcome(E, 0, 0, <<>>)
    ELSE IF E[task_row].done THEN Outcome(E, 0, 0, <<>>)
    ELSE Outcome([E EXCEPT ![task_row].deleted = TRUE], 1, task_row, <<>>)

DeleteTaskInList(E, user_id, task_title, list_id) ==
    IF list_id = 0 THEN Outcome(E, 0, 0, <<>>)
    ELSE DeleteTaskRow(E, _get_task_row(E, user_id, list_id, task_title))

delete_task(E, user_id, list_name, task_title) ==
    DeleteTaskInList(E, user_id, task_title, _get_list_id(E, user_id, list_name))

\* A variant of the query of _suggest_new_list_for_restore that leaves out
\* the branch LOWER(archived_from) = LOWER(?); property C11 tells the two
\* apart.
SuggestWithoutArchivedFrom(E, user_id, list_name, task_title) ==
    \E i \in Ids(E) :
        /\ E[i].user_id = user_id
        /\ E[i].type = "task"
        /\ SqlLower(E[i].title) = SqlLower(task_title)
        /\ E[i].archived
        /\ E[i].archived_from = <<>>

\* Is a suggestion string returned?
_suggest_new_list_for_restore(E, user_id, list_name, task_title) ==
    \E i \in Ids(E) :
        /\ E[i].user_id = user_id
        /\ E[i].type = "task"
        /\ SqlLower(E[i].title) = SqlLower(task_title)
        /\ E[i].archived
        /\ \/ E[i].archived_from = <<>>
           \/ SqlLower(E[i].archived_from) = SqlLower(list_name)

\* The restore of the chosen row: deleted, archived and archived_from are
\* popped and a status "done" is removed.
Revive(E, id) ==
    [E EXCEPT ![id].deleted = FALSE, ![id].archived = FALSE,
              ![id].archived_from = <<>>, ![id].done = FALSE]

Changed(E, id) ==
    E[id].deleted \/ E[id].archived \/ E[id].archived_from # <<>> \/ E[id].done

\* The end of restore_task and restore_task_fuzzy: the candidate is chosen.
RestoreChosen(E, chosen) ==
    IF chosen = 0 THEN Outcome(E, 0, 0, <<>>)
    ELSE IF ~Changed(E, chosen) THEN Outcome(E, 0, 0, <<>>)
    ELSE Outcome(Revive(E, chosen), 1, chosen, E[chosen].title)

\* if not list_id: the suggestion, nothing restored
RestoreNoList(E, user_id, list_name, task_title) ==
    [Outcome(E, 0, 0, <<>>) EXCEPT !.suggestion =
        _suggest_new_list_for_restore(E, user_id, list_name, task_title)]

RestoreAmong(E, task_title, candidates) ==
    IF candidates = <<>> THEN Outcome(E, 0, 0, <<>>)
    ELSE RestoreChosen(E, _select_candidate(E, task_title, candidates))

RestoreInList(E, user_id, list_name, task_title, list_id) ==
    IF list_id = 0 THEN RestoreNoList(E, user_id, list_name, task_title)
    ELSE RestoreAmong(E, task_title, _list_restorable_tasks(E, user_id, list_id))

restore_task(E, user_id, list_name, task_title) ==
    RestoreInList(E, user_id, list_name, task_title,
                  _get_list_id(E, user_id, list_name))

RestoreFuzzyAmong(E, pattern, cleaned, candidates) ==
    IF candidates = <<>> THEN Outcome(E, 0, 0, <<>>)
    ELSE RestoreChosen(E, _score_candidates(E, _tokenize(pattern), cleaned,
                                            candidates))

RestoreFuzzyInList(E, user_id, list_name, pattern, cleaned, list_id) ==
    IF list_id = 0 THEN RestoreNoList(E, user_id, list_name, pattern)
    ELSE RestoreFuzzyAmong(E, pattern, cleaned,
                           _list_restorable_tasks(E, user_id, list_id))

RestoreFuzzyCleaned(E, user_id, list_name, pattern, cleaned) ==
    IF pattern = <<>> \/ cleaned = <<>> THEN Outcome(E, 0, 0, <<>>)
    ELSE RestoreFuzzyInList(E, user_id, list_name, pattern, cleaned,
                            _get_list_id(E, user_id, list_name))

restore_task_fuzzy(E, user_id, list_name, pattern) ==
    RestoreFuzzyCleaned(E, user_id, list_name, pattern, CleanPattern(pattern))

\* The rows S under ORDER BY created_at DESC: rows of one second stay in the
\* order of the index scan.
CreatedAfter(E, i, j) ==
    \/ E[i].created_at > E[j].created_at
    \/ E[i].created_at = E[j].created_at /\ IndexBefore(E, i, j)

RECURSIVE InCreatedOrderDesc(_, _)
InCreatedOrderDesc(E, S) ==
    IF S = {} THEN <<>>
    ELSE LET m == CHOOSE i \in S : \A j \in S \ {i} : CreatedAfter(E, i, j)
         IN  <<m>> \o InCreatedOrderDesc(E, S \ {m})

\* LIMIT ?
Limit(rows, limit) == SubSeq(rows, 1, Min2(Len(rows), limit))

\* The rows get_completed_tasks returns, as ids, newest first.
CompletedRows(E, user_id, limit) ==
    Limit(InCreatedOrderDesc(E, {i \in Ids(E) :
              /\ E[i].user_id = user_id
              /\ E[i].type = "task"
              /\ E[i].done
              /\ ~E[i].deleted}),
          limit)

\* l of the LEFT JOIN of get_completed_tasks: the parent row when it is a
\* list, 0 for the NULL row.
JoinedList(E, i) ==
    IF E[i].parent \in Ids(E) /\ E[E[i].parent].type = "list" THEN E[i].parent ELSE 0

\* One returned pair (display_title, task_title); the display title is
\* [archived: it starts with the archive label, source: the list title shown].
CompletedEntry(E, i) ==
    LET l == JoinedList(E, i)
        l_title == IF l = 0 THEN <<>> ELSE E[l].title
        archived_flag == E[i].archived \/ l = 0 \/ E[l].deleted
        source_title ==
            IF archived_flag /\ E[i].archived_from # <<>> THEN E[i].archived_from
            ELSE l_title
    IN  [display |-> [archived |-> archived_flag \/ source_title = <<>>,
                      source |-> source_title],
         title |-> E[i].title]

CompletedEntries(E, rows) == [k \in 1..Len(rows) |-> CompletedEntry(E, rows[k])]

get_completed_tasks(E, user_id, limit) ==
    CompletedEntries(E, CompletedRows(E, user_id, limit))

\* The rows get_deleted_tasks returns, as ids, newest first.
DeletedRows(E, user_id, limit) ==
    Limit(InCreatedOrderDesc(E, {i \in Ids(E) :
              /\ E[i].user_id = user_id
              /\ E[i].type = "task"
              /\ E[i].deleted}),
          limit)

\* The returned pairs (list_title, task_title).
DeletedEntries(E, rows) ==
    [k \in 1..Len(rows) |->
        [list_title |-> IF E[rows[k]].parent \in Ids(E)
                        THEN E[E[rows[k]].parent].title ELSE <<>>,
         title |-> E[rows[k]].title]]

get_deleted_tasks(E, user_id, limit) ==
    DeletedEntries(E, DeletedRows(E, user_id, limit))

\* json_extract(e.meta, '$.status') != 'done' as a WHERE condition.  The
\* only status the code stores is 'done' (mark_task_done); every other row
\* has no status key, json_extract gives NULL, and NULL != 'done' is NULL,
\* which selects nothing.
StatusIsNotDone(E, i) ==
    LET status == IF E[i].done THEN "done" ELSE "NULL"
    IN  status # "NULL" /\ status # "done"

\* The WHERE and JOIN conditions of search_tasks.
SearchRows(E, user_id, cleaned) ==
    {i \in Ids(E) :
        /\ E[i].user_id = user_id
        /\ E[i].type = "task"
        /\ E[i].parent \in Ids(E)
        /\ Contains(SqlLower(E[i].title), SqlLower(cleaned))
        /\ ~E[i].deleted
        /\ StatusIsNotDone(E, i)}

\* The (list_title, task_title) pairs, oldest first.
search_tasks(E, user_id, pattern) ==
    IF CleanPattern(pattern) = <<>> THEN <<>>
    ELSE LET ids == InCreatedOrder(E, SearchRows(E, user_id, CleanPattern(pattern)))
         IN  [k \in 1..Len(ids) |-> <<E[E[ids[k]].parent].title, E[ids[k]].title>>]

\* The (list_title, task_title) pairs of get_all_tasks: the tasks of the
\* owner joined with their parent row, with the conditions on deleted and
\* status that search_tasks has, ORDER BY l.title, e.created_at.
get_all_tasks(E, user_id) ==
    LET rows == {i \in Ids(E) :
                    /\ E[i].user_id = user_id
                    /\ E[i].type = "task"
                    /\ E[i].parent \in Ids(E)
                    /\ ~E[i].deleted
                    /\ StatusIsNotDone(E, i)}
        Before(i, j) ==
            \/ BinaryLess(E[E[i].parent].title, E[E[j].parent].title)
            \/ /\ E[E[i].parent].title = E[E[j].parent].title
               /\ CreatedBefore(E, i, j)
        ordered == [k \in 1..Cardinality(rows) |->
                       CHOOSE i \in rows :
                           Cardinality({j \in rows \ {i} : Before(j, i)}) = k - 1]
    IN  [k \in DOMAIN ordered |-> <<E[E[ordered[k]].parent].title, E[ordered[k]].title>>]

\* move_entity once the task row is looked up.
MoveRow(E, to_list_id, task_row) ==
    IF task_row = 0 THEN Outcome(E, 0, 0, <<>>)
    ELSE IF UniqueConflict(E, task_row, E[task_row].user_id, E[task_row].type,
                           E[task_row].title, to_list_id)
    THEN Outcome(E, 0, 0, <<>>)
    ELSE Outcome([E EXCEPT ![task_row].parent = to_list_id], 1, task_row, <<>>)

MoveBetween(E, user_id, title, from_list_id, to_list_id) ==
    IF from_list_id = 0 THEN Outcome(E, 0, 0, <<>>)
    ELSE IF to_list_id = 0 THEN Outcome(E, 0, 0, <<>>)
    ELSE MoveRow(E, to_list_id, _get_task_row(E, user_id, from_list_id, title))

move_entity(E, user_id, title, from_list, to_list) ==
    MoveBetween(E, user_id, title, _get_list_id(E, user_id, from_list),
                _get_list_id(E, user_id, to_list))

\* The position of the first least element of the distances dists.
FirstLeast(dists) ==
    CHOOSE k \in 1..Len(dists) :
        \A j \in 1..Len(dists) :
            dists[k] < dists[j] \/ (dists[k] = dists[j] /\ k <= j)

\* min(candidates, key=distance(title.lower(), cleaned.lower())): the first
\* candidate of the least distance.
ClosestCandidate(E, cleaned, candidates) ==
    candidates[FirstLeast([k \in 1..Len(candidates) |->
        distance(PyLower(E[candidates[k]].title), PyLower(cleaned))])]

\* The end of delete_task_fuzzy: target = min(...)
DeleteFuzzyTarget(E, cleaned, target) ==
    IF distance(PyLower(E[target].title), PyLower(cleaned)) > Len(cleaned) \div 2
    THEN Outcome(E, 0, 0, <<>>)
    ELSE Outcome([E EXCEPT ![target].deleted = TRUE], 1, target, E[target].title)

DeleteFuzzyAmong(E, cleaned, candidates) ==
    IF candidates = <<>> THEN Outcome(E, 0, 0, <<>>)
    ELSE DeleteFuzzyTarget(E, cleaned, ClosestCandidate(E, cleaned, candidates))

DeleteFuzzyInList(E, user_id, cleaned, list_id) ==
    IF list_id = 0 THEN Outcome(E, 0, 0, <<>>)
    ELSE DeleteFuzzyAmong(E, cleaned, _list_active_tasks(E, user_id, list_id))

DeleteFuzzyCleaned(E, user_id, list_name, pattern, cleaned) ==
    IF pattern = <<>> \/ cleaned = <<>> THEN Outcome(E, 0, 0, <<>>)
    ELSE DeleteFuzzyInList(E, user_id, cleaned, _get_list_id(E, user_id, list_name))

delete_task_fuzzy(E, user_id, list_name, pattern) ==
    DeleteFuzzyCleaned(E, user_id, list_name, pattern, CleanPattern(pattern))

\* delete_task_by_index once the active tasks are listed.
\* A variant of delete_task_by_index whose guard reads index < 0: index 0
\* then picks tasks[-1], the last task.  Property C13 tells the two apart.
DeleteTaskAtFromZero(E, index, tasks) ==
    IF tasks = <<>> \/ index < 0 \/ index > Len(tasks)
    THEN Outcome(E, 0, 0, <<>>)
    ELSE LET chosen == tasks[IF index = 0 THEN Len(tasks) ELSE index]
         IN  Outcome([E EXCEPT ![chosen].deleted = TRUE], 1, chosen,
                     E[chosen].title)

DeleteTaskAt(E, index, tasks) ==
    IF tasks = <<>> \/ index < 1 \/ index > Len(tasks)
    THEN Outcome(E, 0, 0, <<>>)
    ELSE Outcome([E EXCEPT ![tasks[index]].deleted = TRUE], 1, tasks[index],
                 E[tasks[index]].title)

\* A variant of delete_task_by_index that counts the tasks in the order of
\* the index scan, not of created_at; property C31 tells the two apart.
DeleteTaskByIndexInIndexOrder(E, user_id, index, list_id) ==
    IF list_id = 0 THEN Outcome(E, 0, 0, <<>>)
    ELSE DeleteTaskAt(E, index,
                      InIndexOrder(E, {i \in TaskRows(E, user_id, list_id) :
                                          ~E[i].deleted /\ ~E[i].done}))

DeleteTaskByIndexInList(E, user_id, index, list_id) ==
    IF list_id = 0 THEN Outcome(E, 0, 0, <<>>)
    ELSE DeleteTaskAt(E, index, _list_active_tasks(E, user_id, list_id))

delete_task_by_index(E, user_id, list_name, index) ==
    DeleteTaskByIndexInList(E, user_id, index, _get_list_id(E, user_id, list_name))

\* f"user_{user_id}", for user ids below 10
ProfileTitle(user_id) == <<117, 115, 101, 114, 95, 48 + user_id>>

\* update_user_profile: INSERT OR REPLACE removes every row that violates
\* UNIQUE with the new row, then inserts it.  A removed row keeps its place
\* in the sequence (ids are not reused under AUTOINCREMENT) with the type
\* "removed".  The city and the profession of meta are not modelled.
update_user_profile(E, tick, user_id) ==
    Outcome(Append([i \in Ids(E) |->
                       IF UniqueConflict(<<E[i]>>, 0, user_id, "user_profile",
                                         ProfileTitle(user_id), 0)
                       THEN [E[i] EXCEPT !.type = "removed"]
                       ELSE E[i]],
                   Row(user_id, "user_profile", ProfileTitle(user_id), 0, Now(E, tick))),
            1, Len(E) + 1, <<>>)

\* get_user_profile: the first row of the owner with the type user_profile and
\* the profile title (LIMIT 1 of a scan in rowid order), 0 when there is none.
\* The row stands for the meta it holds: each call of update_user_profile
\* writes its city and profession into the row it inserts.
get_user_profile(E, user_id) ==
    LET rows == {i \in Ids(E) : E[i].user_id = user_id /\ E[i].type = "user_profile"
                                /\ E[i].title = ProfileTitle(user_id)}
    IN  IF rows = {} THEN 0 ELSE CHOOSE i \in rows : \A j \in rows : i <= j

(***************************************************************************)
(* The state machine.  entities is the table; last is the latest call and  *)
(* what it returned: the operation, its arguments, and the outcome of the  *)
(* operator above without the table.  before is the listing                *)
(* get_list_tasks(list) at the moment of the call.                         *)
(***************************************************************************)

\* The most rows the table may hold.
MaxEntities == 3

NoCall ==
    [op |-> "none", user_id |-> 0, list |-> <<>>, title |-> <<>>, arg |-> <<>>,
     index |-> 0, force |-> FALSE, ret |-> 0, target |-> 0, rtitle |-> <<>>,
     suggestion |-> FALSE, res |-> _creation_result, before |-> <<>>]

Observed(op, user_id, list, title, arg, index, force, o) ==
    [op |-> op, user_id |-> user_id, list |-> list, title |-> title, arg |-> arg,
     index |-> index, force |-> force, ret |-> o.ret, target |-> o.target,
     rtitle |-> o.title, suggestion |-> o.suggestion, res |-> o.res,
     before |-> get_list_tasks(entities, user_id, list)]

\* The calls that two connections may have in flight between the statements
\* of their duplicate check and their INSERT, and the slot of a connection
\* with no call in flight.  get_conn sets isolation_level = None, so every
\* statement is a transaction of its own.
Slots == {1, 2}

NoPending == [op |-> "none", user_id |-> 0, list |-> <<>>, title |-> <<>>, list_id |-> 0]

\* One call: the table becomes o.ents and the call is recorded.  tick says
\* whether the clock has reached a new second since the latest insert; a
\* call that inserts nothing does not read the clock, so it is taken with
\* tick = TRUE only.
Step(op, user_id, list, title, arg, index, force, tick, o) ==
    /\ Len(o.ents) <= MaxEntities
    /\ Len(o.ents) = Len(entities) => tick
    /\ entities' = o.ents
    /\ last' = Observed(op, user_id, list, title, arg, index, force, o)
    /\ pending' = pending

CreateList(u, name, force, tick) ==
    Step("createList", u, name, <<>>, <<>>, 0, force, tick,
         create_list(entities, tick, u, name, force))

RenameList(u, old, new) ==
    Step("renameList", u, old, <<>>, new, 0, FALSE, TRUE,
         rename_list(entities, u, old, new))

AddTask(u, list, title, force, tick) ==
    Step("addTask", u, list, title, <<>>, 0, force, tick,
         add_task(entities, tick, u, list, title, force))

UpdateTask(u, list, old, new) ==
    Step("updateTask", u, list, old, new, 0, FALSE, TRUE,
         update_task(entities, u, list, old, new))

UpdateTaskByIndex(u, list, index, new) ==
    Step("updateTaskByIndex", u, list, <<>>, new, index, FALSE, TRUE,
         update_task_by_index(entities, u, list, index, new))

MarkTaskDone(u, list, title) ==
    Step("markTaskDone", u, list, title, <<>>, 0, FALSE, TRUE,
         mark_task_done(entities, u, list, title))

MarkTaskDoneFuzzy(u, list, pattern) ==
    Step("markTaskDoneFuzzy", u, list, pattern, <<>>, 0, FALSE, TRUE,
         mark_task_done_fuzzy(entities, u, list, pattern))

DeleteList(u, name) ==
    Step("deleteList", u, name, <<>>, <<>>, 0, FALSE, TRUE,
         delete_list(entities, u, name))

DeleteTask(u, list, title) ==
    Step("deleteTask", u, list, title, <<>>, 0, FALSE, TRUE,
         delete_task(entities, u, list, title))

DeleteTaskFuzzy(u, list, pattern) ==
    Step("deleteTaskFuzzy", u, list, pattern, <<>>, 0, FALSE, TRUE,
         delete_task_fuzzy(entities, u, list, pattern))

DeleteTaskByIndex(u, list, index) ==
    Step("deleteTaskByIndex", u, list, <<>>, <<>>, index, FALSE, TRUE,
         delete_task_by_index(entities, u, list, index))

RestoreTask(u, list, title) ==
    Step("restoreTask", u, list, title, <<>>, 0, FALSE, TRUE,
         restore_task(entities, u, list, title))

RestoreTaskFuzzy(u, list, pattern) ==
    Step("restoreTaskFuzzy", u, list, pattern, <<>>, 0, FALSE, TRUE,
         restore_task_fuzzy(entities, u, list, pattern))

MoveEntity(u, title, from, to) ==
    Step("moveEntity", u, from, title, to, 0, FALSE, TRUE,
         move_entity(entities, u, title, from, to))

\* create_list up to its INSERT: the duplicate check has found nothing.
BeginCreateList(s, u, name) ==
    /\ pending[s] = NoPending
    /\ Len(create_list(entities, TRUE, u, name, FALSE).ents) > Len(entities)
    /\ pending' = [pending EXCEPT ![s] = [NoPending EXCEPT !.op = "createList",
                                                           !.user_id = u,
                                                           !.list = name]]
    /\ UNCHANGED <<entities, last>>

\* The INSERT of that create_list call and its except clause, on the table
\* as it is by now.
FinishCreateList(s, tick, o) ==
    /\ pending[s].op = "createList"
    /\ Len(o.ents) <= MaxEntities
    /\ entities' = o.ents
    /\ last' = Observed("createList", pending[s].user_id, pending[s].list, <<>>,
                        <<>>, 0, FALSE, o)
    /\ pending' = [pending EXCEPT ![s] = NoPending]

\* add_task up to its INSERT: the list is found, no row has the title and the
\* duplicate check has found nothing.
BeginAddTask(s, u, list, title) ==
    /\ pending[s] = NoPending
    /\ Len(add_task(entities, TRUE, u, list, title, FALSE).ents) > Len(entities)
    /\ pending' = [pending EXCEPT ![s] = [NoPending EXCEPT !.op = "addTask",
                                                           !.user_id = u,
                                                           !.list = list,
                                                           !.title = title,
                                                           !.list_id = find_list(entities, u, list)]]
    /\ UNCHANGED <<entities, last>>

\* The INSERT of that add_task call and its except clause.
FinishAddTask(s, tick, o) ==
    /\ pending[s].op = "addTask"
    /\ Len(o.ents) <= MaxEntities
    /\ entities' = o.ents
    /\ last' = Observed("addTask", pending[s].user_id, pending[s].list,
                        pending[s].title, <<>>, 0, FALSE, o)
    /\ pending' = [pending EXCEPT ![s] = NoPending]

Init == entities = <<>> /\ last = NoCall /\ pending = [s \in Slots |-> NoPending]

\* Every call of the interface, with the owners U, list names LN, task
\* titles and patterns TT and indexes IX as arguments.
Calls(U, LN, TT, IX) ==
    \/ \E u \in U, n \in LN, f \in BOOLEAN, k \in BOOLEAN : CreateList(u, n, f, k)
    \/ \E u \in U, n \in LN, m \in LN : RenameList(u, n, m)
    \/ \E u \in U, n \in LN, t \in TT, f \in BOOLEAN, k \in BOOLEAN :
           AddTask(u, n, t, f, k)
    \/ \E u \in U, n \in LN, t \in TT, w \in TT : UpdateTask(u, n, t, w)
    \/ \E u \in U, n \in LN, i \in IX, w \in TT : UpdateTaskByIndex(u, n, i, w)
    \/ \E u \in U, n \in LN, t \in TT : MarkTaskDone(u, n, t)
    \/ \E u \in U, n \in LN, t \in TT : MarkTaskDoneFuzzy(u, n, t)
    \/ \E u \in U, n \in LN : DeleteList(u, n)
    \/ \E u \in U, n \in LN, t \in TT : DeleteTask(u, n, t)
    \/ \E u \in U, n \in LN, t \in TT : DeleteTaskFuzzy(u, n, t)
    \/ \E u \in U, n \in LN, i \in IX : DeleteTaskByIndex(u, n, i)
    \/ \E u \in U, n \in LN, t \in TT : RestoreTask(u, n, t)
    \/ \E u \in U, n \in LN, t \in TT : RestoreTaskFuzzy(u, n, t)
    \/ \E u \in U, n \in LN, m \in LN, t \in TT : MoveEntity(u, t, n, m)

\* The calls on lists alone.
ListCalls(U, LN) ==
    \/ \E u \in U, n \in LN, f \in BOOLEAN : CreateList(u, n, f, TRUE)
    \/ \E u \in U, n \in LN, m \in LN : RenameList(u, n, m)
    \/ \E u \in U, n \in LN : DeleteList(u, n)

\* The names and titles are non-empty: main.py hands db.py an action only
\* with its names set (`and list_name and title`, main.py:1873), and
\* create_list itself refuses a name that strips to nothing.
\* One owner with one list name "l" and the task titles "a", "A".
Users == {1}

ListNames == {<<108>>}

TaskTitles == {<<97>>, <<65>>}

Indexes == 0..MaxEntities

Next == Calls(Users, ListNames, TaskTitles, Indexes)

Spec == Init /\ [][Next]_vars

\* Lists alone, named "a", "A", "a " (trailing space) and the stopword "и".
ListOnlyNames == {<<97>>, <<65>>, <<97, 32>>, <<1080>>}

NextLists == ListCalls(Users, ListOnlyNames)

SpecLists == Init /\ [][NextLists]_vars

\* One list name "l" and task titles that are stopwords: "и", "И".
StopwordTitles == {<<1080>>, <<1048>>}

NextStopwords == Calls(Users, ListNames, StopwordTitles, Indexes)

SpecStopwords == Init /\ [][NextStopwords]_vars

UpdateUserProfile(u, tick) ==
    Step("updateUserProfile", u, <<>>, <<>>, <<>>, 0, FALSE, tick,
         update_user_profile(entities, tick, u))

\* Every call of the interface, update_user_profile included, with the one
\* task title "a".
NextProfile ==
    \/ Calls(Users, ListNames, {<<97>>}, Indexes)
    \/ \E u \in Users, k \in BOOLEAN : UpdateUserProfile(u, k)

SpecProfile == Init /\ [][NextProfile]_vars

\* Two owners, with the same list name and one task title.
Owners == {1, 2}

NextOwners == Calls(Owners, ListNames, {<<97>>}, Indexes)

SpecOwners == Init /\ [][NextOwners]_vars

\* The call c (a record with the fields op, user_id, list, title, arg, index
\* and force, as last has them) made on the table E.
Dispatch(E, tick, c) ==
    CASE c.op = "createList" -> create_list(E, tick, c.user_id, c.list, c.force)
      [] c.op = "renameList" -> rename_list(E, c.user_id, c.list, c.arg)
      [] c.op = "addTask" -> add_task(E, tick, c.user_id, c.list, c.title, c.force)
      [] c.op = "updateTask" -> update_task(E, c.user_id, c.list, c.title, c.arg)
      [] c.op = "updateTaskByIndex" ->
             update_task_by_index(E, c.user_id, c.list, c.index, c.arg)
      [] c.op = "markTaskDone" -> mark_task_done(E, c.user_id, c.list, c.title)
      [] c.op = "markTaskDoneFuzzy" ->
             mark_task_done_fuzzy(E, c.user_id, c.list, c.title)
      [] c.op = "deleteList" -> delete_list(E, c.user_id, c.list)
      [] c.op = "deleteTask" -> delete_task(E, c.user_id, c.list, c.title)
      [] c.op = "deleteTaskFuzzy" -> delete_task_fuzzy(E, c.user_id, c.list, c.title)
      [] c.op = "deleteTaskByIndex" ->
             delete_task_by_index(E, c.user_id, c.list, c.index)
      [] c.op = "restoreTask" -> restore_task(E, c.user_id, c.list, c.title)
      [] c.op = "restoreTaskFuzzy" ->
             restore_task_fuzzy(E, c.user_id, c.list, c.title)
      [] c.op = "moveEntity" -> move_entity(E, c.user_id, c.title, c.list, c.arg)

\* The Fuzzy Resolver alone.  The titles "Купить хлеб", "Купить молоко",
\* "молоко", "хлеб" and the patterns "хлеб", "купить", "мол", "сыр" and the
\* stopwords "да", "и".
ResolverTitles ==
    {<<1050, 1091, 1087, 1080, 1090, 1100, 32, 1093, 1083, 1077, 1073>>,
     <<1050, 1091, 1087, 1080, 1090, 1100, 32, 1084, 1086, 1083, 1086, 1082, 1086>>,
     <<1084, 1086, 1083, 1086, 1082, 1086>>,
     <<1093, 1083, 1077, 1073>>}

ResolverPatterns ==
    {<<1093, 1083, 1077, 1073>>,
     <<1082, 1091, 1087, 1080, 1090, 1100>>,
     <<1084, 1086, 1083>>,
     <<1089, 1099, 1088>>,
     <<1076, 1072>>,
     <<1080>>}

\* The tables with the list "l" of owner 1 and active tasks of different
\* titles in it, inserted one second after another.
ResolverTables ==
    {[i \in 1..(Len(titles) + 1) |->
         IF i = 1 THEN Row(1, "list", <<108>>, 0, 1)
         ELSE Row(1, "task", titles[i - 1], 1, i)] :
     titles \in {t \in UNION {[1..n -> ResolverTitles] : n \in 0..(MaxEntities - 1)} :
                    \A i \in DOMAIN t, j \in DOMAIN t : t[i] = t[j] => i = j}}

InitResolver ==
    /\ entities \in ResolverTables
    /\ last = NoCall
    /\ pending = [s \in Slots |-> NoPending]

\* _select_candidate(pattern, candidates) as mark_task_done calls it, on the
\* active tasks of the list.
SelectCandidate(pattern) ==
    /\ last' = [NoCall EXCEPT !.op = "selectCandidate", !.user_id = 1,
                              !.list = <<108>>, !.title = pattern,
                              !.target = _select_candidate(entities, pattern,
                                             _list_active_tasks(entities, 1, 1))]
    /\ UNCHANGED <<entities, pending>>

NextResolver == \E pattern \in ResolverPatterns : SelectCandidate(pattern)

SpecResolver == InitResolver /\ [][NextResolver]_vars

\* One list name "l" and the task titles "a" and "a." (with punctuation).
PunctuatedTitles == {<<97>>, <<97, 46>>}

NextPunctuated == Calls(Users, ListNames, PunctuatedTitles, Indexes)

SpecPunctuated == Init /\ [][NextPunctuated]_vars

\* The move_entity branch of route_actions without meta["fuzzy"], after
\* create_list has run for a target that find_list did not find: the move
\* goes to the duplicate create_list reports, or else to the name asked for.
RouteMoveCreated(c, user_id, title, from, to) ==
    move_entity(c.ents, user_id, title, from,
                IF c.res.duplicate_detected /\ c.res.duplicate_title # <<>>
                THEN c.res.duplicate_title ELSE to)

\* The move_entity branch of route_actions: both lists are looked up with
\* find_list, the target is created when find_list has no row for it.
route_move_entity(E, tick, user_id, title, from, to) ==
    IF find_list(E, user_id, from) = 0 THEN Outcome(E, 0, 0, <<>>)
    ELSE IF find_list(E, user_id, to) = 0
    THEN RouteMoveCreated(create_list(E, tick, user_id, to, FALSE),
                          user_id, title, from, to)
    ELSE move_entity(E, user_id, title, from, to)

RouteMoveEntity(u, title, from, to, tick) ==
    Step("routeMoveEntity", u, from, title, to, 0, FALSE, tick,
         route_move_entity(entities, tick, u, title, from, to))

\* Two lists "l" and "m" and the task "a": the calls that make, finish and
\* delete them, and the move between the lists.
MoveLists == {<<108>>, <<109>>}

NextMove ==
    \/ \E u \in Users, n \in MoveLists, k \in BOOLEAN : CreateList(u, n, FALSE, k)
    \/ \E u \in Users, n \in MoveLists, k \in BOOLEAN :
           AddTask(u, n, <<97>>, FALSE, k)
    \/ \E u \in Users, n \in MoveLists : MarkTaskDone(u, n, <<97>>)
    \/ \E u \in Users, n \in MoveLists : DeleteTask(u, n, <<97>>)
    \/ \E u \in Users, n \in MoveLists : DeleteList(u, n)
    \/ \E u \in Users, f \in MoveLists, t \in MoveLists, k \in BOOLEAN :
           RouteMoveEntity(u, <<97>>, f, t, k)

SpecMove == Init /\ [][NextMove]_vars

\* Lists "l" and "m" and tasks "a", "b", "c": the calls that create them,
\* that delete a task by its ordinal, and the calls that give a list or a
\* task a new title.
RetitleLists == {<<108>>, <<109>>}

RetitleTasks == {<<97>>, <<98>>, <<99>>}

NextRetitle ==
    \/ \E u \in Users, n \in RetitleLists, k \in BOOLEAN : CreateList(u, n, FALSE, k)
    \/ \E u \in Users, n \in RetitleLists, t \in RetitleTasks, k \in BOOLEAN :
           AddTask(u, n, t, FALSE, k)
    \/ \E u \in Users, n \in RetitleLists, i \in Indexes : DeleteTaskByIndex(u, n, i)
    \/ \E u \in Users, n \in RetitleLists, m \in RetitleLists : RenameList(u, n, m)
    \/ \E u \in Users, n \in RetitleLists, t \in RetitleTasks, new \in RetitleTasks :
           UpdateTask(u, n, t, new)
    \/ \E u \in Users, n \in RetitleLists, i \in Indexes, new \in RetitleTasks :
           UpdateTaskByIndex(u, n, i, new)

SpecRetitle == Init /\ [][NextRetitle]_vars

(***************************************************************************)
(* extract_task_list_from_command (src/main.py)                            *)
(***************************************************************************)

\* \w of Python's re on the characters used here.
ReWord(c) == IsWordChar(c) \/ c = 95

\* \b between s[i] and s[i + 1], for i in 0..Len(s).
WordBoundary(s, i) ==
    (i >= 1 /\ ReWord(s[i])) # (i < Len(s) /\ ReWord(s[i + 1]))

\* match.end() of re.search(r"\bдобав[а-яё]*\b", command, re.IGNORECASE):
\* the leftmost start, then the longest run of [а-яё] that ends at a word
\* boundary; -1 for no match.
AddVerbEnd(s) ==
    LET Ends(p) ==
            IF /\ p + 5 <= Len(s)
               /\ PyLower(SubSeq(s, p + 1, p + 5)) = <<1076, 1086, 1073, 1072, 1074>>
               /\ WordBoundary(s, p)
            THEN {e \in (p + 5)..Len(s) :
                     /\ \A k \in (p + 6)..e :
                            s[k] \in 1040..1103 \/ s[k] = 1025 \/ s[k] = 1105
                     /\ WordBoundary(s, e)}
            ELSE {}
        starts == {p \in 0..Len(s) : Ends(p) # {}}
    IN  IF starts = {} THEN -1
        ELSE LET p == CHOOSE q \in starts : \A r \in starts : q <= r
             IN  CHOOSE e \in Ends(p) : \A f \in Ends(p) : f <= e

\* The positions a run of at least least whitespace characters that starts
\* after position i can end at.
SpaceRunEnds(s, i, least) ==
    {j \in (i + least)..Len(s) : \A k \in (i + 1)..j : IsSpace(s[k])}

\* The positions the literal word (matched under re.IGNORECASE) ends at when
\* it starts after position i.
LiteralEnds(s, i, word) ==
    IF /\ i + Len(word) <= Len(s)
       /\ PyLower(SubSeq(s, i + 1, i + Len(word))) = PyLower(word)
    THEN {i + Len(word)} ELSE {}

\* ^(?:в|во)\s+ : where it can end.
PrepositionEnds(s) ==
    UNION {SpaceRunEnds(s, i, 1) :
             i \in LiteralEnds(s, 0, <<1074>>) \cup LiteralEnds(s, 0, <<1074, 1086>>)}

\* (?:список|лист) starting after position i.
ListWordEnds(s, i) ==
    LiteralEnds(s, i, <<1089, 1087, 1080, 1089, 1086, 1082>>)
        \cup LiteralEnds(s, i, <<1083, 1080, 1089, 1090>>)

\* pattern.sub("", segment, count=1).strip() for the pattern
\* ^(?:в|во)\s+(?:список|лист)?\s*<list_name>\b.  All matches of one segment
\* end at the same place unless list_name itself begins with a space or with
\* one of the words of the pattern.
RemoveListName(s, list_name) ==
    LET ends == {e \in UNION {LiteralEnds(s, k, list_name) :
                     k \in UNION {SpaceRunEnds(s, j, 0) :
                                    j \in PrepositionEnds(s)
                                          \cup UNION {ListWordEnds(s, i) :
                                                        i \in PrepositionEnds(s)}}} :
                    WordBoundary(s, e)}
    IN  IF list_name = <<>> \/ ends = {} THEN s
        ELSE Strip(SubSeq(s, (CHOOSE x \in ends : \A y \in ends : y <= x) + 1, Len(s)))

\* re.sub(r"^(?:в|во)\s+(?:список|лист)\s+[\w\s]+", "", segment, count=1)
\* .strip(): after the list word come one whitespace character at least and
\* one more of [\w\s]; the match runs to the end of the run of [\w\s].
RemoveListPhrase(s) ==
    LET RunEnds(w) == {e \in (w + 2)..Len(s) :
                          \A k \in (w + 1)..e : ReWord(s[k]) \/ IsSpace(s[k])}
        words == {w \in UNION {ListWordEnds(s, i) : i \in PrepositionEnds(s)} :
                     SpaceRunEnds(s, w, 1) # {} /\ RunEnds(w) # {}}
    IN  IF words = {} THEN Strip(s)
        ELSE LET w == CHOOSE x \in words : TRUE
                 e == CHOOSE x \in RunEnds(w) : \A y \in RunEnds(w) : y <= x
             IN  Strip(SubSeq(s, e + 1, Len(s)))

\* s.strip(" .!?:;«»'\"")
Trim(s) ==
    LET kept == {i \in DOMAIN s : s[i] \notin {32, 46, 33, 63, 58, 59, 171, 187, 39, 34}}
    IN  IF kept = {} THEN <<>>
        ELSE SubSeq(s, CHOOSE i \in kept : \A k \in kept : i <= k,
                       CHOOSE i \in kept : \A k \in kept : k <= i)

\* re.split(r"(?:[,;]|\bи\b)", segment, flags=re.IGNORECASE): the pieces of
\* s from position i on, cur being the piece read so far; empty pieces are
\* kept.
RECURSIVE SplitItems(_, _, _)
SplitItems(s, i, cur) ==
    IF i > Len(s) THEN <<cur>>
    ELSE IF \/ s[i] \in {44, 59}
            \/ /\ PyLowerChar(s[i]) = 1080
               /\ WordBoundary(s, i - 1)
               /\ WordBoundary(s, i)
         THEN <<cur>> \o SplitItems(s, i + 1, <<>>)
    ELSE SplitItems(s, i + 1, Append(cur, s[i]))

\* tasks = [item.strip(...) for item in raw_items if item.strip(...)]
RECURSIVE TrimmedItems(_)
TrimmedItems(raw_items) ==
    IF raw_items = <<>> THEN <<>>
    ELSE (IF Trim(Head(raw_items)) = <<>> THEN <<>> ELSE <<Trim(Head(raw_items))>>)
         \o TrimmedItems(Tail(raw_items))

\* The loop over tasks: the first task of every lowercased key, in order.
RECURSIVE UniqueTasks(_, _)
UniqueTasks(tasks, seen) ==
    IF tasks = <<>> THEN <<>>
    ELSE IF PyLower(Head(tasks)) \in seen THEN UniqueTasks(Tail(tasks), seen)
    ELSE <<Head(tasks)>> \o UniqueTasks(Tail(tasks), seen \cup {PyLower(Head(tasks))})

\* base_title is a parameter the body never reads.
extract_task_list_from_command(command, list_name, base_title) ==
    IF AddVerbEnd(command) = -1 THEN <<>>
    ELSE LET after == Strip(SubSeq(command, AddVerbEnd(command) + 1, Len(command)))
         IN  IF after = <<>> THEN <<>>
             ELSE LET segment == Trim(RemoveListPhrase(RemoveListName(after, list_name)))
                  IN  IF segment = <<>> THEN <<>>
                      ELSE UniqueTasks(TrimmedItems(SplitItems(segment, 1, <<>>)), {})

\* Commands for extract_task_list_from_command: an optional "в п " before
\* the verb "добавь", an optional "в список п " after it, then one to
\* MaxItems items out of "х", "м", "Х", each pair joined by " ", ", " or
\* " и ".  list_name is absent or "п"; base_title is absent or "К " followed
\* by the first item.
MaxItems == 3

ItemWords == {<<1093>>, <<1084>>, <<1061>>}

ItemSeparators == {<<32>>, <<44, 32>>, <<32, 1080, 32>>}

RECURSIVE JoinItems(_, _)
JoinItems(items, seps) ==
    IF Len(items) = 1 THEN items[1]
    ELSE items[1] \o seps[1] \o JoinItems(Tail(items), Tail(seps))

ExtractCommand(before, locator, items, seps) ==
    before \o <<1076, 1086, 1073, 1072, 1074, 1100, 32>> \o locator
           \o JoinItems(items, seps)

InitExtract ==
    /\ entities = <<>>
    /\ pending = [s \in Slots |-> NoPending]
    /\ \E n \in 1..MaxItems :
         \E items \in [1..n -> ItemWords], seps \in [1..(n - 1) -> ItemSeparators],
            before \in {<<>>, <<1074, 32, 1087, 32>>},
            locator \in {<<>>, <<1074, 32, 1089, 1087, 1080, 1089, 1086, 1082, 32, 1087, 32>>},
            list_name \in {<<>>, <<1087>>} :
          \E base_title \in {<<>>, <<1050, 32>> \o items[1]} :
           last = [NoCall EXCEPT !.op = "command",
                                 !.arg = ExtractCommand(before, locator, items, seps),
                                 !.list = list_name,
                                 !.title = base_title]

\* One call: last.arg is the command, last.list the list_name, last.title
\* the base_title; the list returned is recorded in last.before.
ExtractTaskList ==
    /\ last.op = "command"
    /\ last' = [last EXCEPT !.op = "extractTaskList",
                            !.before = extract_task_list_from_command(
                                           last.arg, last.list, last.title)]
    /\ UNCHANGED <<entities, pending>>

NextExtract == ExtractTaskList

SpecExtract == InitExtract /\ [][NextExtract]_vars

\* Texts for semantic_similarity: up to MaxWords of the words "a", "A", "b",
\* the stopword "и" and the punctuation ".", joined by single spaces.
MaxWords == 2

SimilarityWords == {<<97>>, <<65>>, <<98>>, <<1080>>, <<46>>}

SimilarityTexts ==
    {<<>>} \cup UNION {{JoinItems(w, [k \in 1..(n - 1) |-> <<32>>]) :
                           w \in [1..n -> SimilarityWords]} : n \in 1..MaxWords}

InitSimilarity ==
    /\ entities = <<>>
    /\ pending = [s \in Slots |-> NoPending]
    /\ \E text_a \in SimilarityTexts, text_b \in SimilarityTexts :
           last = [NoCall EXCEPT !.op = "texts", !.title = text_a, !.arg = text_b]

\* One call: last.title is text_a, last.arg is text_b; the score returned is
\* recorded in last.res.similarity.
SemanticSimilarity ==
    /\ last.op = "texts"
    /\ last' = [last EXCEPT !.op = "semanticSimilarity",
                            !.res.similarity = semantic_similarity(last.title, last.arg)]
    /\ UNCHANGED <<entities, pending>>

NextSimilarity == SemanticSimilarity

SpecSimilarity == InitSimilarity /\ [][NextSimilarity]_vars

\* Names of several words, for list names and task titles alike: "a b c",
\* "a b c d", "a b c d e" (similarities 3/4, 4/5 and 3/5 between them).
ScoreNames ==
    {<<97, 32, 98, 32, 99>>,
     <<97, 32, 98, 32, 99, 32, 100>>,
     <<97, 32, 98, 32, 99, 32, 100, 32, 101>>}

\* create_list and add_task on those names, and mark_task_done, after which
\* add_task revives.
NextScores ==
    \/ \E u \in Users, n \in ScoreNames, f \in BOOLEAN : CreateList(u, n, f, TRUE)
    \/ \E u \in Users, n \in ScoreNames, t \in ScoreNames, f \in BOOLEAN :
           AddTask(u, n, t, f, TRUE)
    \/ \E u \in Users, n \in ScoreNames, t \in ScoreNames : MarkTaskDone(u, n, t)

SpecScores == Init /\ [][NextScores]_vars

\* Creation calls without force of two connections: a call runs either in
\* one piece or as its check followed, after statements of the other
\* connection, by its INSERT.
NextConcurrent ==
    \/ \E u \in Users, n \in ListNames, k \in BOOLEAN : CreateList(u, n, FALSE, k)
    \/ \E u \in Users, n \in ListNames, t \in TaskTitles, k \in BOOLEAN :
           AddTask(u, n, t, FALSE, k)
    \/ \E s \in Slots, u \in Users, n \in ListNames : BeginCreateList(s, u, n)
    \/ \E s \in Slots, k \in BOOLEAN :
           FinishCreateList(s, k,
               CreateListChecked(entities, k, pending[s].user_id, pending[s].list,
                                 Strip(pending[s].list), <<0, <<0, 0>>>>))
    \/ \E s \in Slots, u \in Users, n \in ListNames, t \in TaskTitles :
           BeginAddTask(s, u, n, t)
    \/ \E s \in Slots, k \in BOOLEAN :
           FinishAddTask(s, k,
               AddTaskChecked(entities, k, pending[s].user_id, pending[s].title,
                              pending[s].list_id, 0, <<0, <<0, 0>>>>))

SpecConcurrent == Init /\ [][NextConcurrent]_vars

(***************************************************************************)
(* Properties.  A property of one call is an action property: last' is the *)
(* call of the step and entities the table it was made on; a property of   *)
(* two calls in a row reads the first call from last.                      *)
(***************************************************************************)

\* C1: in every state reachable by createList (force true or false),
\* renameList and deleteList calls, no owner has two non-deleted lists whose
\* titles are equal case-insensitively.
C1_UniqueListTitles ==
    \A i \in Ids(entities), j \in Ids(entities) :
        (/\ i # j
         /\ entities[i].type = "list" /\ entities[j].type = "list"
         /\ entities[i].user_id = entities[j].user_id
         /\ ~entities[i].deleted /\ ~entities[j].deleted)
        => PyLower(entities[i].title) # PyLower(entities[j].title)

\* C2: in every reachable state no list has two non-deleted child tasks
\* whose titles are equal case-insensitively.  The lists are those that
\* were not deleted: the calls of the claim delete no list.
C2_UniqueTaskTitles ==
    \A p \in Ids(entities) :
        (entities[p].type = "list" /\ ~entities[p].deleted)
        => \A i \in TaskRows(entities, entities[p].user_id, p),
              j \in TaskRows(entities, entities[p].user_id, p) :
               (i # j /\ ~entities[i].deleted /\ ~entities[j].deleted)
               => PyLower(entities[i].title) # PyLower(entities[j].title)

\* C3: createList(name) called twice in a row by one owner with a non-empty
\* name in the same case-insensitive spelling (force false): the second call
\* returns the id the first call returned, with created = false, and the
\* number of list entities does not grow.
C3_CreateListIdempotent ==
    [][(/\ last.op = "createList" /\ last'.op = "createList"
        /\ ~last.force /\ ~last'.force
        /\ last'.user_id = last.user_id
        /\ last.list # <<>>
        /\ PyLower(last'.list) = PyLower(last.list))
       => /\ last'.res.id = last.res.id
          /\ ~last'.res.created
          /\ Cardinality(ListRows(entities', last'.user_id))
                 = Cardinality(ListRows(entities, last'.user_id))]_vars

\* C4: addTask(list, title) on a list that already holds an active task of
\* the same title up to case returns duplicate_detected = true with
\* similarity 1.0 and leaves the table as it was.
C4_AddTaskDuplicate ==
    [][(/\ last'.op = "addTask" /\ ~last'.force
        /\ \E p \in ListRows(entities, last'.user_id) :
              /\ ~entities[p].deleted
              /\ PyLower(entities[p].title) = PyLower(last'.list)
              /\ \E i \in TaskRows(entities, last'.user_id, p) :
                    /\ ~entities[i].deleted /\ ~entities[i].done
                    /\ ~entities[i].archived
                    /\ PyLower(entities[i].title) = PyLower(last'.title))
       => /\ last'.res.duplicate_detected
          /\ last'.res.similarity[2] # 0
          /\ last'.res.similarity[1] = last'.res.similarity[2]
          /\ entities' = entities]_vars

\* C5: addTask(list, title) on a list that holds a task of that title which
\* is Done or Deleted revives it: restored = true with that task's id, the
\* task is Active and in getListTasks afterwards, and no row is inserted.
C5_AddTaskRevives ==
    [][\A p \in ListRows(entities, last'.user_id) :
         \A i \in TaskRows(entities, last'.user_id, p) :
           (/\ last'.op = "addTask" /\ ~last'.force
            /\ ~entities[p].deleted
            /\ PyLower(entities[p].title) = PyLower(last'.list)
            /\ entities[i].title = last'.title
            /\ entities[i].done \/ entities[i].deleted
            /\ ~entities[i].archived)
           => /\ last'.res.restored
              /\ last'.res.id = i
              /\ ~entities'[i].deleted /\ ~entities'[i].done
              /\ entities[i].title \in
                     SeqToSet(get_list_tasks(entities', last'.user_id, last'.list))
              /\ Len(entities') = Len(entities)]_vars

\* C6: after deleteList(name) returned success, getAllLists of the owner
\* does not contain name and getListTasks(name) returns no task, whatever
\* calls came before.
C6_DeletedListGone ==
    (last.op = "deleteList" /\ last.ret = 1)
    => /\ last.list \notin SeqToSet(get_all_lists(entities, last.user_id))
       /\ get_list_tasks(entities, last.user_id, last.list) = <<>>

\* C7: after deleteList(name) succeeded, every task that was a child of the
\* list is in the result of getCompletedTasks or of getDeletedTasks, the
\* limit being the number of rows of the table.
C7_ArchivedTasksListed ==
    [][(last'.op = "deleteList" /\ last'.ret = 1)
       => \A i \in TaskRows(entities, last'.user_id, last'.target) :
            \/ \E e \in SeqToSet(get_completed_tasks(entities', last'.user_id,
                                                     Len(entities'))) :
                  e.title = entities[i].title
            \/ \E e \in SeqToSet(get_deleted_tasks(entities', last'.user_id,
                                                   Len(entities'))) :
                  e.title = entities[i].title]_vars

\* C8: deleteList(name) cascades: after it succeeded the list row is marked
\* deleted, every child task that was Active or Done is archived with
\* archived_from = name, and no child task carries the deleted flag.
C8_DeleteListCascades ==
    [][(last'.op = "deleteList" /\ last'.ret = 1)
       => /\ entities'[last'.target].type = "list"
          /\ entities'[last'.target].title = last'.list
          /\ entities'[last'.target].deleted
          /\ \A i \in TaskRows(entities, last'.user_id, last'.target) :
                /\ ~entities[i].deleted
                   => /\ entities'[i].archived
                      /\ entities'[i].archived_from = last'.list
                /\ ~entities'[i].deleted]_vars

\* C8 happens: a list with a Done child and an Active child was deleted.
C8_Witness ==
    /\ last.op = "deleteList" /\ last.ret = 1
    /\ \E i \in TaskRows(entities, last.user_id, last.target) :
          /\ entities[i].done /\ entities[i].archived
          /\ entities[i].archived_from = last.list
    /\ \E j \in TaskRows(entities, last.user_id, last.target) :
          /\ ~entities[j].done /\ entities[j].archived
          /\ entities[j].archived_from = last.list

\* C9: a Done task is never moved to Deleted by a delete call, and
\* deleteTask or deleteTaskFuzzy called with the title of the task that the
\* markTaskDone just before it marked returns not-found.
C9_DoneNotDeletable ==
    [][/\ \A i \in Ids(entities) :
            (/\ last'.op \in {"deleteTask", "deleteTaskFuzzy", "deleteTaskByIndex"}
             /\ entities[i].type = "task"
             /\ entities[i].done /\ ~entities[i].deleted)
            => entities'[i].done /\ ~entities'[i].deleted
       /\ (/\ last.op = "markTaskDone" /\ last.ret = 1
           /\ last'.op \in {"deleteTask", "deleteTaskFuzzy"}
           /\ last'.user_id = last.user_id
           /\ last'.list = last.list
           /\ last'.title = entities[last.target].title)
          => last'.ret = 0]_vars

\* C10: a delete call that succeeded on a list, then restoreTask with the
\* title of the deleted task: it returns success with that title and
\* getListTasks of the list is what it was before the deletion.
C10_DeleteRestoreRoundTrip ==
    [][(/\ last.op \in {"deleteTask", "deleteTaskFuzzy", "deleteTaskByIndex"}
        /\ last.ret = 1
        /\ last'.op = "restoreTask"
        /\ last'.user_id = last.user_id
        /\ last'.list = last.list
        /\ last'.title = entities[last.target].title)
       => /\ last'.ret = 1
          /\ last'.rtitle = entities[last.target].title
          /\ get_list_tasks(entities', last'.user_id, last'.list) = last.before]_vars

C12_ArchivedRestorable ==
    \A i \in Ids(entities) :
        (entities[i].type = "task" /\ entities[i].archived) =>
            \E list \in ListNames, title \in TaskTitles, again \in BOOLEAN :
                LET user_id == entities[i].user_id
                    E == IF again
                         THEN create_list(entities, TRUE, user_id, list, FALSE).ents
                         ELSE entities
                    Active(F) == /\ ~F[i].archived /\ ~F[i].deleted /\ ~F[i].done
                                 /\ F[i].parent # 0 /\ ~F[F[i].parent].deleted
                IN  \/ Active(restore_task(E, user_id, list, title).ents)
                    \/ Active(restore_task_fuzzy(E, user_id, list, title).ents)

\* C12, what the code does instead: no call of any operation ever clears the
\* archived flag of a task or brings its list back.
C12_ArchivedStays ==
    [][\A i \in Ids(entities) :
          (entities[i].type = "task" /\ entities[i].archived) =>
              /\ entities'[i].archived
              /\ entities'[i].parent = entities[i].parent
              /\ entities'[entities[i].parent].deleted]_vars

\* C13: deleteTaskByIndex(list, k) on a list with N active tasks succeeds
\* and moves exactly one task, an active task of that list, to Deleted when
\* 1 <= k <= N; for k < 1 or k > N (N = 0 included) it returns not-found and
\* changes no entity.
C13_DeleteByIndexRange ==
    [][last'.op = "deleteTaskByIndex" =>
          LET list_id == _get_list_id(entities, last'.user_id, last'.list)
              active == IF list_id = 0 THEN <<>>
                        ELSE _list_active_tasks(entities, last'.user_id, list_id)
              N == Len(active)
              k == last'.index
          IN  IF 1 <= k /\ k <= N
              THEN /\ last'.ret = 1
                   /\ \E i \in SeqToSet(active) :
                         /\ ~entities[i].deleted
                         /\ entities' = [entities EXCEPT ![i].deleted = TRUE]
              ELSE /\ last'.ret = 0
                   /\ entities' = entities]_vars

\* C13 happens: the second of two active tasks was deleted by index.
C13_Witness ==
    /\ last.op = "deleteTaskByIndex"
    /\ Len(last.before) = 2
    /\ last.index = 2
    /\ last.ret = 1
    /\ \E i \in Ids(entities) :
          entities[i].deleted /\ entities[i].title = last.rtitle

\* C14: addTask returns missing_parent = true and inserts no entity whenever
\* the owner has no non-deleted list of that name (compared without case),
\* also when the only list of that name was deleted by deleteList.
C14_AddTaskMissingParent ==
    [][(/\ last'.op = "addTask"
        /\ \A p \in ListRows(entities, last'.user_id) :
              PyLower(entities[p].title) = PyLower(last'.list)
                  => entities[p].deleted)
       => /\ last'.res.missing_parent
          /\ Len(entities') = Len(entities)]_vars

C16_NeverRemoved ==
    [][/\ Len(entities') >= Len(entities)
       /\ \A i \in Ids(entities) :
             /\ entities'[i].type # "removed"
             /\ entities'[i].user_id = entities[i].user_id]_vars

\* C16 happens: updateUserProfile was called for an owner who had a profile
\* row, and both rows are in the table.
C16_Witness ==
    /\ last.op = "updateUserProfile"
    /\ \E i \in Ids(entities), j \in Ids(entities) :
          /\ i < j
          /\ entities[i].type = "user_profile"
          /\ entities[j].type = "user_profile"
          /\ entities[i].user_id = entities[j].user_id
          /\ entities[i].title = entities[j].title

\* C17: when creation calls of one owner run with their duplicate checks and
\* their inserts interleaved, the table never holds two non-deleted entities
\* of the same kind, parent and title.
C17_NoConcurrentTwins ==
    \A i \in Ids(entities), j \in Ids(entities) :
        (/\ i < j
         /\ entities[i].user_id = entities[j].user_id
         /\ entities[i].type = entities[j].type
         /\ entities[i].parent = entities[j].parent
         /\ ~entities[i].deleted /\ ~entities[j].deleted)
        => entities[i].title # entities[j].title

\* C18: whenever the INSERT of createList or addTask is rejected by the
\* UNIQUE constraint, the call returns the entity that exists already: its
\* id is set, created is false and it is reported as a duplicate.
C18_ConflictRecovered ==
    [][\A s \in Slots :
          (/\ pending[s].op \in {"createList", "addTask"}
           /\ pending'[s] = NoPending
           /\ IF pending[s].op = "createList"
              THEN UniqueConflict(entities, 0, pending[s].user_id, "list",
                                  Strip(pending[s].list), 0)
              ELSE UniqueConflict(entities, 0, pending[s].user_id, "task",
                                  pending[s].title, pending[s].list_id))
          => /\ last'.res.id \in Ids(entities)
             /\ entities[last'.res.id].user_id = pending[s].user_id
             /\ entities[last'.res.id].title = last'.res.title
             /\ ~last'.res.created
             /\ last'.res.duplicate_detected]_vars

\* The table E with every entity of the owners other than A replaced by a
\* fresh list "x" inserted in the same second.
C19_Other(E, A) ==
    [i \in Ids(E) |-> IF E[i].user_id = A THEN E[i]
                      ELSE Row(E[i].user_id, "list", <<120>>, 0, E[i].created_at)]

C21_ExactMatchWins ==
    [][(/\ last'.op \in {"markTaskDone", "markTaskDoneFuzzy", "restoreTask",
                         "restoreTaskFuzzy", "deleteTaskFuzzy"}
        /\ _get_list_id(entities, last'.user_id, last'.list) # 0)
       => LET list_id == _get_list_id(entities, last'.user_id, last'.list)
              candidates ==
                  SeqToSet(IF last'.op \in {"restoreTask", "restoreTaskFuzzy"}
                           THEN _list_restorable_tasks(entities, last'.user_id, list_id)
                           ELSE _list_active_tasks(entities, last'.user_id, list_id))
              exact == {c \in candidates :
                           PyLower(entities[c].title) = PyLower(last'.title)}
          IN  exact # {} => /\ last'.ret = 1
                            /\ last'.target \in exact
                            /\ entities'[last'.target] # entities[last'.target]]_vars

\* C22: findSemanticDuplicate returns a match only if its score is above
\* 0.75 and the match is an Active entity (not Done, Deleted or Archived) of
\* the same owner, kind and (when given) parent, with no other such entity
\* of a higher score; it returns none when no entity scores above 0.75.
C22_DuplicateIsActiveBest ==
    \A user_id \in Users, title \in PunctuatedTitles, kind \in {"list", "task"},
       parent_id \in {0} \cup ListRows(entities, 1) :
        LET match == _find_semantic_duplicate(entities, user_id, title, kind, parent_id)
            Scoped == {i \in Ids(entities) :
                          /\ entities[i].user_id = user_id
                          /\ entities[i].type = kind
                          /\ (parent_id # 0 => entities[i].parent = parent_id)}
            IsActive(i) == /\ ~entities[i].deleted
                           /\ ~entities[i].done
                           /\ ~entities[i].archived
            Score(i) == semantic_similarity(title, entities[i].title)
        IN  IF match[1] # 0
            THEN /\ match[1] \in Scoped
                 /\ IsActive(match[1])
                 /\ match[2] = Score(match[1])
                 /\ AboveThreshold(match[2])
                 /\ \A i \in Scoped :
                       IsActive(i) => ~ScoreGreater(Score(i), match[2])
            ELSE \A i \in Scoped : IsActive(i) => ~AboveThreshold(Score(i))

\* C23: in every result of createList and addTask, duplicate_detected
\* implies similarity > 0.75, auto_use holds exactly when duplicate_detected
\* holds and similarity >= 0.85, and a result with created or restored has
\* neither duplicate_detected nor auto_use.
C23_ResultThresholds ==
    last.op \in {"createList", "addTask"} =>
        /\ last.res.duplicate_detected =>
               /\ last.res.similarity[2] > 0
               /\ last.res.similarity[1] * 4 > last.res.similarity[2] * 3
        /\ last.res.auto_use <=>
               /\ last.res.duplicate_detected
               /\ last.res.similarity[1] * 20 >= last.res.similarity[2] * 17
        /\ (last.res.created \/ last.res.restored) =>
               /\ ~last.res.duplicate_detected
               /\ ~last.res.auto_use

\* C23 happens: createList met a list of similarity 4/5, between the two
\* thresholds, and reported it without auto_use.
C23_Witness ==
    /\ last.op = "createList"
    /\ last.res.duplicate_detected
    /\ ~last.res.auto_use
    /\ last.res.similarity = <<4, 5>>
\* C24: a move reparents the task.  When the list being moved from exists
\* and the target list does not, the call leaves a target list in existence;
\* after a successful move between two different lists the task is a child of
\* the target list, a task that getListTasks(fromList) showed is shown by
\* getListTasks(toList) and no longer by getListTasks(fromList), and its
\* lifecycle flags are as before.
C24_MoveReparents ==
    [][last'.op = "routeMoveEntity" =>
         \E u \in {last'.user_id}, from \in {last'.list}, to \in {last'.arg} :
           \E fromId \in {_get_list_id(entities, u, from)},
              toBefore \in {_get_list_id(entities, u, to)},
              toId \in {_get_list_id(entities', u, to)},
              t \in {last'.target} :
             /\ (fromId # 0 /\ toBefore = 0) => toId # 0
             /\ (last'.ret = 1 /\ fromId # toId) =>
                   /\ toId # 0
                   /\ entities'[t].parent = toId
                   /\ entities'[t].deleted = entities[t].deleted
                   /\ entities'[t].done = entities[t].done
                   /\ entities'[t].archived = entities[t].archived
                   /\ (\E k \in DOMAIN last'.before : last'.before[k] = entities[t].title)
                        => /\ \E k \in DOMAIN get_list_tasks(entities', u, to) :
                                get_list_tasks(entities', u, to)[k] = entities[t].title
                           /\ \A k \in DOMAIN get_list_tasks(entities', u, from) :
                                get_list_tasks(entities', u, from)[k] # entities[t].title
    ]_vars

\* C25: searchTasks(pattern) returns exactly the owner's tasks that are
\* neither done nor deleted and whose title contains the cleaned pattern,
\* letter case aside; a task just added is among them.
C25_SearchFindsOpenTasks ==
    \A u \in Users, pattern \in TaskTitles :
        {search_tasks(entities, u, pattern)[k][2] :
             k \in DOMAIN search_tasks(entities, u, pattern)}
        = {entities[i].title :
             i \in {j \in Ids(entities) :
                       /\ entities[j].user_id = u
                       /\ entities[j].type = "task"
                       /\ ~entities[j].done
                       /\ ~entities[j].deleted
                       /\ Contains(PyLower(entities[j].title),
                                   PyLower(CleanPattern(pattern)))}}

\* C26: getListTasks(list) is the titles of exactly the active tasks of the
\* list (not done, not deleted, not archived), the task created k-th among
\* them at ordinal k; it is empty when no list of that name exists or the
\* list is deleted.
C26_ListTasksInCreationOrder ==
    \A u \in Users, list \in ListNames :
        \E list_id \in {_get_list_id(entities, u, list)},
           tasks \in {get_list_tasks(entities, u, list)} :
            LET active == {i \in TaskRows(entities, u, list_id) :
                              /\ ~entities[i].deleted
                              /\ ~entities[i].done
                              /\ ~entities[i].archived}
            IN  IF list_id = 0 THEN tasks = <<>>
                ELSE /\ Len(tasks) = Cardinality(active)
                     /\ \A i \in active :
                            tasks[Cardinality({j \in active : j <= i})]
                                = entities[i].title

\* What the call c refers to is missing from the table E: no list of that
\* name that is not deleted, no task in the list for the operation to choose
\* from, or an ordinal outside 1..N.
C27_Missing(E, c, list_id) ==
    \/ list_id = 0
    \/ /\ c.op \in {"markTaskDone", "markTaskDoneFuzzy", "deleteTaskFuzzy"}
       /\ _list_active_tasks(E, c.user_id, list_id) = <<>>
    \/ /\ c.op \in {"deleteTask", "updateTask", "moveEntity"}
       /\ \A i \in TaskRows(E, c.user_id, list_id) : E[i].deleted
    \/ /\ c.op \in {"restoreTask", "restoreTaskFuzzy"}
       /\ _list_restorable_tasks(E, c.user_id, list_id) = <<>>
    \/ /\ c.op \in {"deleteTaskByIndex", "updateTaskByIndex"}
       /\ c.index \notin 1..Len(_list_active_tasks(E, c.user_id, list_id))
    \/ /\ c.op = "moveEntity"
       /\ _get_list_id(E, c.user_id, c.arg) = 0

\* C27: a mutation by reference whose list or task is missing, whose ordinal
\* is out of range or which has no candidate returns its not-found value and
\* leaves every entity as it was.
C27_NotFoundChangesNothing ==
    [][(/\ last'.op \in {"markTaskDone", "markTaskDoneFuzzy", "deleteTask",
                         "deleteTaskFuzzy", "deleteTaskByIndex", "restoreTask",
                         "restoreTaskFuzzy", "updateTask", "updateTaskByIndex",
                         "renameList", "moveEntity", "deleteList"}
        /\ C27_Missing(entities, last',
                       _get_list_id(entities, last'.user_id, last'.list)))
       => /\ last'.ret = 0
          /\ entities' = entities
    ]_vars

\* The words of a command that follow its add verb.
RECURSIVE WordsAfterVerb(_)
WordsAfterVerb(words) ==
    IF words = <<>> THEN <<>>
    ELSE IF /\ Len(Head(words)) >= 5
            /\ PyLower(SubSeq(Head(words), 1, 5)) = <<1076, 1086, 1073, 1072, 1074>>
         THEN Tail(words)
    ELSE WordsAfterVerb(Tail(words))

\* C28: when a single word follows the add verb, the command names a single
\* task and the list returned is empty.
C28_SingleEntryIsNoList ==
    (/\ last.op = "extractTaskList"
     /\ Len(WordsAfterVerb(WordRuns(last.arg, <<>>))) = 1)
    => last.before = <<>>

\* C29: when the add verb is followed by two or more different items
\* separated by spaces only, and base_title is "К " with the first item, the
\* list returned has one task per item, in order: base_title first, then
\* each later item with the same leading "К ".
C29_SplitsWithoutCommas ==
    \A words \in {WordsAfterVerb(WordRuns(last.arg, <<>>))} :
        (/\ last.op = "extractTaskList"
         /\ Len(words) >= 2
         /\ \A k \in DOMAIN last.arg : last.arg[k] \notin {44, 59}
         /\ \A k \in DOMAIN words : words[k] \in ItemWords
         /\ \A k \in DOMAIN words, n \in DOMAIN words :
                k # n => PyLower(words[k]) # PyLower(words[n])
         /\ last.title = <<1050, 32>> \o words[1])
        => last.before = [k \in DOMAIN words |-> <<1050, 32>> \o words[k]]

\* The lifecycle state the flags of a row stand for: archiving supersedes
\* the other flags, done takes precedence over deleted.
C30_Lifecycle(r) ==
    IF r.archived THEN "Archived"
    ELSE IF r.done THEN "Done"
    ELSE IF r.deleted THEN "Deleted"
    ELSE "Active"

\* The tasks whose lifecycle state differs between the tables E and F.
C30_Changed(E, F) ==
    {i \in Ids(E) : E[i].type = "task" /\ C30_Lifecycle(F[i]) # C30_Lifecycle(E[i])}

\* C30: a mark-done call changes only an Active task, to Done; a delete-task
\* call only an Active task, to Deleted; a restore call only a Done, Deleted
\* or Archived task, to Active; and no call but deleteList changes the
\* lifecycle state of more than one task.
C30_LifecycleTransitions ==
    [][\E changed \in {C30_Changed(entities, entities')} :
         /\ last'.op # "deleteList" => Cardinality(changed) <= 1
         /\ \A i \in changed :
              /\ last'.op \in {"markTaskDone", "markTaskDoneFuzzy"}
                   => /\ C30_Lifecycle(entities[i]) = "Active"
                      /\ C30_Lifecycle(entities'[i]) = "Done"
              /\ last'.op \in {"deleteTask", "deleteTaskFuzzy", "deleteTaskByIndex"}
                   => /\ C30_Lifecycle(entities[i]) = "Active"
                      /\ C30_Lifecycle(entities'[i]) = "Deleted"
              /\ last'.op \in {"restoreTask", "restoreTaskFuzzy"}
                   => /\ C30_Lifecycle(entities[i]) \in {"Done", "Deleted", "Archived"}
                      /\ C30_Lifecycle(entities'[i]) = "Active"
    ]_vars

\* A restore call has just returned a task to Active while another task of
\* the table is Done or Deleted.
C30_Witness ==
    /\ last.op \in {"restoreTask", "restoreTaskFuzzy"}
    /\ last.ret = 1
    /\ C30_Lifecycle(entities[last.target]) = "Active"
    /\ \E i \in Ids(entities) :
         /\ entities[i].type = "task"
         /\ C30_Lifecycle(entities[i]) \in {"Done", "Deleted"}

\* C31: deleteTaskByIndex(list, k) and updateTaskByIndex(list, k, t) act on
\* the task that getListTasks(list) shows at ordinal k in the state of the
\* call: an ordinal of the listing is always accepted by the delete, the
\* task acted on carries the title listed at k, no other row changes, and
\* after a delete the listing is the former one without its k-th entry.
C31_OrdinalMatchesListing ==
    [][last'.op \in {"deleteTaskByIndex", "updateTaskByIndex"} =>
         \E k \in {last'.index}, listed \in {last'.before}, t \in {last'.target} :
           /\ (last'.op = "deleteTaskByIndex" /\ k \in 1..Len(listed)) => last'.ret = 1
           /\ last'.ret = 1 =>
                /\ k \in 1..Len(listed)
                /\ entities[t].title = listed[k]
                /\ last'.rtitle = listed[k]
                /\ Cardinality({i \in Ids(entities) :
                                   /\ entities[i].parent = entities[t].parent
                                   /\ entities[i].type = "task"
                                   /\ ~entities[i].deleted /\ ~entities[i].done
                                   /\ CreatedBefore(entities, i, t)}) = k - 1
                /\ \A i \in Ids(entities) \ {t} : entities'[i] = entities[i]
                /\ last'.op = "deleteTaskByIndex" =>
                     get_list_tasks(entities', last'.user_id, last'.list)
                       = SubSeq(listed, 1, k - 1) \o SubSeq(listed, k + 1, Len(listed))
                /\ last'.op = "updateTaskByIndex" =>
                     entities' = [entities EXCEPT ![t].title = last'.arg]
    ]_vars

\* deleteTaskByIndex has just deleted ordinal 1 of a listing of two tasks
\* that were created in different seconds, and the task formerly at ordinal
\* 2 is now at ordinal 1.
C31_Witness ==
    /\ last.op = "deleteTaskByIndex"
    /\ last.ret = 1
    /\ last.index = 1
    /\ Len(last.before) = 2
    /\ get_list_tasks(entities, last.user_id, last.list) = <<last.before[2]>>
    /\ \E i \in Ids(entities) :
         /\ entities[i].type = "task"
         /\ ~entities[i].deleted
         /\ entities[i].created_at # entities[last.target].created_at

\* C32: in every state, for every list and pattern, deleteTaskFuzzy finds a
\* task exactly when markTaskDoneFuzzy finds one, and it is the same task.
C32_FuzzyDeleteAgrees ==
    \A u \in Users, list \in ListNames, pattern \in PunctuatedTitles :
        \E d \in {delete_task_fuzzy(entities, u, list, pattern)},
           m \in {mark_task_done_fuzzy(entities, u, list, pattern)} :
            /\ d.ret = m.ret
            /\ d.target = m.target

\* The listing after a call that gave the task t the title new: the
\* listing before it with new in the place of t's title, or the same
\* listing when t was not listed.
C33_Retitled(E, listed, t, new) ==
    [k \in DOMAIN listed |->
        IF /\ listed[k] = E[t].title
           /\ ~E[t].deleted /\ ~E[t].done
        THEN new ELSE listed[k]]

C34_AddedTaskVisible ==
    [][(/\ last'.op = "addTask"
        /\ last'.res.created \/ last'.res.restored)
       => \E listed \in {get_list_tasks(entities', last'.user_id, last'.list)} :
            \E k \in DOMAIN listed : listed[k] = last'.res.title
    ]_vars

\* C35: in every state a task is archived exactly when the list it belongs
\* to is deleted.
C35_ArchivedIffListDeleted ==
    \A i \in Ids(entities) :
        (/\ entities[i].type = "task"
         /\ entities[i].parent \in Ids(entities))
        => (entities[i].archived <=> entities[entities[i].parent].deleted)

\* C36: in every state no task is done and deleted at once.
C36_NeverDoneAndDeleted ==
    \A i \in Ids(entities) :
        entities[i].type = "task" => ~(entities[i].done /\ entities[i].deleted)

\* deleteTask has just been called with the title of a task that is done,
\* and has returned not-found.
C36_Witness ==
    /\ last.op = "deleteTask"
    /\ last.ret = 0
    /\ \E i \in TaskRows(entities, last.user_id,
                        _get_list_id(entities, last.user_id, last.list)) :
         /\ entities[i].done
         /\ ~entities[i].deleted
         /\ SqlLower(entities[i].title) = SqlLower(last.title)

\* C37: in every state getAllTasks holds exactly the (list title, task
\* title) pairs that getListTasks gives for the lists of getAllLists.
C37_AllTasksMatchesListings ==
    \A u \in Users :
        {get_all_tasks(entities, u)[k] : k \in DOMAIN get_all_tasks(entities, u)}
        = UNION {{<<get_all_lists(entities, u)[n], get_list_tasks(entities, u, get_all_lists(entities, u)[n])[k]>> :
                     k \in DOMAIN get_list_tasks(entities, u, get_all_lists(entities, u)[n])} :
                 n \in DOMAIN get_all_lists(entities, u)}

\* C38: the user profile round-trips and is single: after any calls of
\* updateUserProfile for an owner, getUserProfile reads the row written by the
\* most recent of them, and the table holds at most one user_profile row of
\* that owner.
C38_ProfileSingle ==
    \A u \in Users :
        LET rows == {i \in Ids(entities) : entities[i].user_id = u
                                            /\ entities[i].type = "user_profile"}
        IN  /\ Cardinality(rows) <= 1
            /\ rows # {} => get_user_profile(entities, u) = CHOOSE i \in rows : \A j \in rows : j <= i

\* C39: the similarity score is the Jaccard index of the two normalized token
\* sets: it is |A \cap B| / |A \cup B| when the union is not empty, the same
\* with the arguments exchanged, between 0 and 1, equal to 1 exactly when the
\* token sets are equal and not empty, and 0 when both are empty; a text
\* without tokens (stopwords or punctuation only) never scores above the
\* duplicate threshold against any text, itself included.
C39_JaccardIndex ==
    last.op = "semanticSimilarity" =>
        LET A == SeqToSet(_semantic_tokenize(last.title))
            B == SeqToSet(_semantic_tokenize(last.arg))
            score == last.res.similarity
        IN  /\ score[2] > 0 /\ 0 <= score[1] /\ score[1] <= score[2]
            /\ A \cup B # {} =>
                   score[1] * Cardinality(A \cup B) = Cardinality(A \cap B) * score[2]
            /\ ScoreEqual(score, semantic_similarity(last.arg, last.title))
            /\ (score[1] = score[2]) <=> (A = B /\ A # {})
            /\ (A = {} /\ B = {}) => score[1] = 0
            /\ (A = {} \/ B = {}) => ~AboveThreshold(score)

\* C39 happens: a text made of a stopword and punctuation was scored against
\* itself, and the score is 0.
C39_Witness ==
    /\ last.op = "semanticSimilarity"
    /\ last.title = <<1080, 32, 46>>
    /\ last.arg = last.title
    /\ _semantic_tokenize(last.title) = <<>>
    /\ last.res.similarity[1] = 0

====
